---- MODULE Spec2Model ----
(***************************************************************************)
(* Model of the LeyChile legal-research assistant: the conversation        *)
(* controller App, the planning and snippet oracle clients (geminiService) *)
(* and the search / full-text backends (leyChileService) at their boundary.*)
(*                                                                         *)
(* The repository holds two revisions of App.  The "loop" revision         *)
(* (src/unnamed/part_004) confirms by an allow-list prefix and runs a      *)
(* bounded search loop after one confirmation; the "single" revision       *)
(* (src/unnamed/part_003) confirms by a "sí"/"si" prefix or a button and   *)
(* runs one search per confirmation.  The variable revision says which one *)
(* a behaviour runs: SpecLoop and SpecSingle fix it, Spec leaves it open.  *)
(*                                                                         *)
(* One turn is one sequential pipeline; every `await` of the code is a     *)
(* position of pc at which the environment returns a value or throws.      *)
(* Texts are sequences of one-character strings where the code inspects    *)
(* their characters (user messages, search queries) and plain strings      *)
(* where it only copies them.                                              *)
(***************************************************************************)
EXTENDS Integers, Sequences, FiniteSets, TLC

\* ------------------------------------------------------------------ bounds

\* user messages accepted in one run of the model
MaxTurns == 3

\* ------------------------------------------------------- program constants

MAX_SEARCH_LOOPS == 2

\* a null string (error: string | null)
Null == "null"
\* a nullable or optional array: absent, or holding one value
Absent == <<>>
Some(v) == <<v>>
ValueOf(o) == o[1]

SENTINEL_ID == "Desconocido"

GREETING == "¡Hola! Soy tu asistente legal de LeyChile. ¿Qué consulta tienes hoy?"
STARTING == "¡Entendido! Iniciando investigación..."
DEEPENING == "Investigación inicial completada. Profundizando sobre: "
ADJUSTED == "Entendido. Basado en tu respuesta, he ajustado el plan. Propongo investigar lo siguiente: "
SORRY == "Lo siento, ocurrió un error: "
ERR_BUDGET == "No pude encontrar una respuesta satisfactoria después de múltiples búsquedas."
ERR_NO_ANSWER == "No pude formular una respuesta con la información encontrada."
ERR_PLANNING == "La IA no pudo decidir el siguiente paso."
ERR_CANDIDATES == "La solicitud directa a LeyChile falló con estado: 500"
ERR_FULLTEXT == "La solicitud para el texto completo de la norma falló. Estado: 500"

\* --------------------------------------------------------------- sequences

Last(s) == s[Len(s)]

RECURSIVE SeqToSet(_)
SeqToSet(s) == IF s = <<>> THEN {} ELSE {Head(s)} \cup SeqToSet(Tail(s))

\* String.prototype.trim over the whitespace of the model's alphabet
IsSpace(c) == c = " "

RECURSIVE TrimStart(_)
TrimStart(s) ==
    IF s # <<>> /\ IsSpace(Head(s)) THEN TrimStart(Tail(s)) ELSE s

RECURSIVE TrimEnd(_)
TrimEnd(s) ==
    IF s # <<>> /\ IsSpace(Last(s)) THEN TrimEnd(SubSeq(s, 1, Len(s) - 1)) ELSE s

Trim(s) == TrimEnd(TrimStart(s))

\* the capital letters of the model's alphabet and their small forms
Capitals ==
    << "A", "B", "C", "D", "E", "F", "G", "H", "I", "J", "K", "L", "M", "N",
       "O", "P", "Q", "R", "S", "T", "U", "V", "W", "X", "Y", "Z", "Í", "Ó" >>
Smalls ==
    << "a", "b", "c", "d", "e", "f", "g", "h", "i", "j", "k", "l", "m", "n",
       "o", "p", "q", "r", "s", "t", "u", "v", "w", "x", "y", "z", "í", "ó" >>

\* the canonical form the /i flag compares characters in; toLowerCase
LowerChar(c) ==
    IF \E k \in 1..Len(Capitals) : Capitals[k] = c
    THEN Smalls[CHOOSE k \in 1..Len(Capitals) : Capitals[k] = c]
    ELSE c

ToLowerCase(s) == [i \in 1..Len(s) |-> LowerChar(s[i])]

StartsWith(s, p) == Len(s) >= Len(p) /\ SubSeq(s, 1, Len(p)) = p


\* ------------------------------------------------------------ data domains

\* what the user can type (handleSend passes the text on untrimmed)
UserMessages ==
    { <<" ", "O", "k">>,          \* an affirmation, indented and capitalised
      <<"n", "o">> }              \* a research question, or feedback

\* what the user can type to the single revision, which also takes a typed
\* "sí" in place of its button
UserMessagesSingle ==
    { <<"O", "k">>,               \* an affirmation token other than sí/si
      <<"n", "o">>,               \* a research question, or feedback
      <<"S", "í">> }              \* the typed confirmation, capitalised

\* the alternatives of /^(s[ií]|procede|correcto|acepto|dale|ok)/i
AffirmationTokens ==
    { <<"s", "i">>, <<"s", "í">>,
      <<"p", "r", "o", "c", "e", "d", "e">>,
      <<"c", "o", "r", "r", "e", "c", "t", "o">>,
      <<"a", "c", "e", "p", "t", "o">>,
      <<"d", "a", "l", "e">>,
      <<"o", "k">> }

\* search terms as the oracle writes them
QueryA == <<"a", " ", "b">>
QueryB == <<"c">>
QueryC == <<" ", "d", " ">>

\* FetchedItem, as fetchLawCandidates builds it from one <Norma> block
FetchedItem(id, title) ==
    [ id |-> id, title |-> title,
      publicationDate |-> "12-MAR-2020", effectiveDate |-> "No informado",
      link |-> <<"https://www.leychile.cl/navegar?idNorma=", id>>,
      lawNumber |-> <<"N", id>> ]

\* the listings the search backend can answer with
CandidateListings ==
    { <<>>,
      <<FetchedItem("A", "t1")>>,
      <<FetchedItem(SENTINEL_ID, "t1"), FetchedItem("A", "t2"), FetchedItem("B", "t1")>> }

\* what fetchFullLawText can resolve to ("" when nothing usable came back)
FullTexts == {"", "texto"}

\* what extractRelevantSnippets can resolve to
SnippetLists == {<<>>, <<"fragmento">>}

\* AiReference as the oracle writes it (id, title, fragment only are its own)
OracleReference(id) ==
    [ id |-> id, title |-> "titulo IA", fragment |-> "cita",
      lawNumber |-> <<>>, publicationDate |-> "?", effectiveDate |-> "?",
      link |-> <<"?">>, sourceQueries |-> <<>> ]

\* AiPlanningResponse: the four plan shapes; a field the shape lacks is Null
\* (a text) or <<>> (an array) and is never read for that shape
PlanRecord(plan, question, proposal, queries, query, reasoning, answer, references) ==
    [ plan |-> plan, clarificationQuestion |-> question, proposal |-> proposal,
      newSearchQueries |-> queries, searchQuery |-> query, reasoning |-> reasoning,
      answer |-> answer, references |-> references ]

ClarifyPlan == PlanRecord("CLARIFY", "¿Qué?", Null, <<>>, <<>>, Null, Null, <<>>)
RespondPlan(refs) == PlanRecord("RESPOND", Null, Null, <<>>, <<>>, Null, "respuesta", refs)
\* the loop revision's types: queries in newSearchQueries
ProposePlan(qs) == PlanRecord("PROPOSE_PLAN", Null, "propuesta", qs, <<>>, Null, Null, <<>>)
SearchMorePlan(qs) == PlanRecord("SEARCH_MORE", Null, Null, qs, <<>>, "motivo", Null, <<>>)
\* the single revision's types: one searchQuery and a reasoning
ProposePlanSingle(q) == PlanRecord("PROPOSE_PLAN", Null, Null, <<>>, q, "motivo", Null, <<>>)
SearchMorePlanSingle(q) == PlanRecord("SEARCH_MORE", Null, Null, <<>>, q, "motivo", Null, <<>>)

\* the plans the planning oracle can write in response.text
OraclePlans ==
    { ClarifyPlan,
      ProposePlan(<<QueryA, QueryB>>),
      SearchMorePlan(<<QueryC>>),
      RespondPlan(<<OracleReference("A")>>) }

OraclePlansSingle ==
    { ClarifyPlan,
      ProposePlanSingle(QueryA),
      SearchMorePlanSingle(QueryC),
      RespondPlan(<<OracleReference("A")>>) }

\* ------------------------------------------------------------ chat messages

ChatMessage(role, content, references, loading, awaiting, clarification) ==
    [ role |-> role, content |-> content, references |-> references,
      isLoading |-> loading, isAwaitingConfirmation |-> awaiting,
      isClarificationRequest |-> clarification ]

UserTurn(text) == ChatMessage("user", text, Absent, FALSE, FALSE, FALSE)
ModelTurn(content) == ChatMessage("model", content, Absent, FALSE, FALSE, FALSE)
LoadingTurn(content) == ChatMessage("model", content, Absent, TRUE, FALSE, FALSE)
ErrorTurn(errorMessage) == ModelTurn(<<SORRY, errorMessage>>)

\* ------------------------------------------------------------ Map<string, _>

\* a Map as its entries in insertion order
MapHas(m, id) == \E i \in 1..Len(m) : m[i].id = id

\* a map that keeps an earlier entry beside a later one under the same key
MapSet_Push(m, item) == Append(m, item)

\* Map.prototype.set: an existing key keeps its position
MapSet(m, item) ==
    IF MapHas(m, item.id)
    THEN [i \in 1..Len(m) |-> IF m[i].id = item.id THEN item ELSE m[i]]
    ELSE Append(m, item)

MapGet(m, id) == m[CHOOSE i \in 1..Len(m) : m[i].id = id]

MapKeys(m) == {m[i].id : i \in 1..Len(m)}


\* ------------------------------------------------- pure parts of the code

\* sq.trim().replace(/\s+/g, '+')
RECURSIVE ReplaceSpaceRuns(_)
ReplaceSpaceRuns(s) ==
    IF s = <<>> THEN <<>>
    ELSE IF IsSpace(Head(s))
         THEN <<"+">> \o ReplaceSpaceRuns(TrimStart(s))
         ELSE <<Head(s)>> \o ReplaceSpaceRuns(Tail(s))

FormatQuery(sq) == ReplaceSpaceRuns(Trim(sq))

\* /^(s[ií]|procede|correcto|acepto|dale|ok)/i.test(newMessage.trim())
IsConfirmed(newMessage) ==
    \E t \in AffirmationTokens : StartsWith(ToLowerCase(Trim(newMessage)), t)

\* a filter that forgets to look the identifier up in the dossier
IsNewCandidate_NoLookup(newItem, dossierNow) == newItem.id # SENTINEL_ID

\* the filter of candidates.forEach in executeSearchLoop
IsNewCandidate(newItem, dossierNow) ==
    newItem.id # SENTINEL_ID /\ ~MapHas(dossierNow, newItem.id)

\* { ...newItem, sourceQueries: [sq] }
ResultItem(newItem, sq) ==
    [ id |-> newItem.id, title |-> newItem.title,
      publicationDate |-> newItem.publicationDate,
      effectiveDate |-> newItem.effectiveDate,
      link |-> newItem.link, lawNumber |-> newItem.lawNumber,
      sourceQueries |-> <<sq>> ]

\* candidates.forEach(newItem => ...) over one listing
RECURSIVE CollectCandidates(_, _, _, _)
CollectCandidates(unique, candidates, sq, dossierNow) ==
    IF candidates = <<>> THEN unique
    ELSE CollectCandidates(
             IF IsNewCandidate(Head(candidates), dossierNow)
             THEN MapSet(unique, ResultItem(Head(candidates), sq))
             ELSE unique,
             Tail(candidates), sq, dossierNow)

\* { ...law, fullText, snippets }
DossierItem(law, text, snippets) ==
    [ id |-> law.id, title |-> law.title,
      publicationDate |-> law.publicationDate,
      effectiveDate |-> law.effectiveDate,
      link |-> law.link, lawNumber |-> law.lawNumber,
      sourceQueries |-> law.sourceQueries,
      fullText |-> text, snippets |-> snippets ]

\* a reconciliation that leaves the oracle's link in place
ReconcileReference_OwnLink(ref, dossierArg) ==
    IF MapHas(dossierArg, ref.id)
    THEN LET originalItem == MapGet(dossierArg, ref.id)
         IN  [ ref EXCEPT !.lawNumber = originalItem.lawNumber,
                          !.publicationDate = originalItem.publicationDate,
                          !.effectiveDate = originalItem.effectiveDate,
                          !.sourceQueries = originalItem.sourceQueries ]
    ELSE ref

\* the reference reconciliation of analyzeAndPlanNextStep: { ...ref, five
\* fields of originalItem } when dossier.find gives an item, else ref
ReconcileReference(ref, dossierArg) ==
    IF MapHas(dossierArg, ref.id)
    THEN LET originalItem == MapGet(dossierArg, ref.id)
         IN  [ ref EXCEPT !.lawNumber = originalItem.lawNumber,
                          !.publicationDate = originalItem.publicationDate,
                          !.effectiveDate = originalItem.effectiveDate,
                          !.link = originalItem.link,
                          !.sourceQueries = originalItem.sourceQueries ]
    ELSE ref

\* what analyzeAndPlanNextStep returns for the plan parsed from response.text
ParsedPlan(rawPlan, dossierArg) ==
    IF rawPlan.plan = "RESPOND"
    THEN [ rawPlan EXCEPT !.references =
             [i \in 1..Len(rawPlan.references) |->
                 ReconcileReference(rawPlan.references[i], dossierArg)] ]
    ELSE rawPlan

\* the turn handleAiPlan appends for a plan
HandleAiPlanTurn(plan) ==
    CASE plan.plan = "CLARIFY" ->
            ChatMessage("model", <<plan.clarificationQuestion>>, Absent, FALSE, FALSE, TRUE)
      [] plan.plan = "PROPOSE_PLAN" ->
            ChatMessage("model", <<plan.proposal>>, Absent, FALSE, TRUE, FALSE)
      [] plan.plan = "SEARCH_MORE" ->
            ChatMessage("model", <<ADJUSTED, plan.reasoning>>, Absent, FALSE, TRUE, FALSE)
      [] plan.plan = "RESPOND" ->
            ChatMessage("model", <<plan.answer>>, Some(plan.references), FALSE, FALSE, FALSE)

\* a handleAiPlan that stores only the plans tagged PROPOSE_PLAN
HandleAiPlanProposed_ProposeOnly(plan, current) ==
    IF plan.plan = "PROPOSE_PLAN" THEN Some(plan.newSearchQueries) ELSE current

\* proposedPlanRef.current after handleAiPlan
HandleAiPlanProposed(plan, current) ==
    IF plan.plan \in {"PROPOSE_PLAN", "SEARCH_MORE"}
    THEN Some(plan.newSearchQueries)
    ELSE current

\* the turn executeSearchLoop appends for a RESPOND plan
RespondTurn(plan) ==
    ChatMessage("model", <<plan.answer>>, Some(plan.references), FALSE, FALSE, FALSE)

\* a counter that skips a value on each clarification answer
NextClarificationAttempt_Twice(isClarificationResponse, current) ==
    IF isClarificationResponse THEN current + 2 ELSE 0

\* isClarificationResponse ? clarificationAttemptRef.current++ : (... = 0)
NextClarificationAttempt(isClarificationResponse, current) ==
    IF isClarificationResponse THEN current + 1 ELSE 0


\* -------------------------------------------------------------------- state

VARIABLES
    revision,               \* which App runs: "loop" or "single"
    chatMessages,           \* useState<ChatMessage[]>
    isLoading,              \* useState<boolean>
    error,                  \* useState<string | null>
    dossier,                \* dossierRef.current, entries in insertion order
    clarificationAttempt,   \* clarificationAttemptRef.current
    proposedPlan,           \* proposedPlanRef.current: Absent or Some(queries)
    pc,                     \* the await the running turn is suspended at
    newMessages,            \* handleSendMessage: newMessages / currentMessages
    searchQueries,          \* executeSearchLoop: searchQueries
    loops,                  \* executeSearchLoop: loops
    uniqueCandidates,       \* executeSearchLoop: uniqueCandidates
    sqIdx,                  \* position of `for (const sq of searchQueries)`
    newLawsToProcess,       \* executeSearchLoop: newLawsToProcess
    lawIdx,                 \* position of `for (const law of newLawsToProcess)`
    fullText,               \* executeSearchLoop: fullText of the law in hand
    inputs,                 \* history: the user actions accepted so far
    calls,                  \* history: the external calls of the current turn
    planSerial,             \* history: plans the oracle has returned so far
    proposedSrc,            \* history: serial of the plan held in proposedPlan
    querySrc,               \* history: serial of the plan searchQueries came from
    affirmedUpTo,           \* history: planSerial when the user last affirmed
    serviceCall             \* the service function applied last, its input and outcome

session == <<dossier, clarificationAttempt, proposedPlan>>
surface == <<chatMessages, isLoading, error>>
locals == <<newMessages, searchQueries, loops, uniqueCandidates, sqIdx,
            newLawsToProcess, lawIdx, fullText>>
history == <<calls, planSerial, proposedSrc, querySrc, affirmedUpTo>>
app == <<revision, surface, session, pc, locals, inputs, history>>
vars == <<app, serviceCall>>

\* one external call, with what it was given and how it ended
\* (src: the serial of the plan the searched query came from; result: "ok",
\* "throw" or the plan returned)
CallRecord(fn, site, query, id, src, messages, dossierArg, attempt, result) ==
    [ fn |-> fn, site |-> site, query |-> query, id |-> id, src |-> src,
      messages |-> messages, dossierArg |-> dossierArg, attempt |-> attempt,
      result |-> result ]

SearchCall(site, query, src, result) ==
    CallRecord("fetchLawCandidates", site, query, "", src, <<>>, <<>>, 0, result)
FullTextCall(site, id, result) ==
    CallRecord("fetchFullLawText", site, <<>>, id, 0, <<>>, <<>>, 0, result)
SnippetCall(site, query, id, result) ==
    CallRecord("extractRelevantSnippets", site, query, id, 0, <<>>, <<>>, 0, result)
PlanCall(site, messages, dossierArg, attempt, result) ==
    CallRecord("analyzeAndPlanNextStep", site, <<>>, "", 0, messages, dossierArg, attempt, result)

\* one application of a service function on its own: the function, the
\* revision of the file it is in, what it was given and what came out
ServiceCall(fn, part, input, output) ==
    [ fn |-> fn, part |-> part, input |-> input, output |-> output ]

NoServiceCall == ServiceCall("none", "none", <<>>, <<>>)

\* one user action: a typed message or the accept button, and the flags of
\* the turn it answers
UserInput(kind, text, lastMessage) ==
    [ kind |-> kind, text |-> text,
      afterAwaiting |-> lastMessage.isAwaitingConfirmation,
      afterClarification |-> lastMessage.isClarificationRequest ]

Init ==
    /\ revision \in {"loop", "single"}
    /\ inputs = <<>>
    /\ chatMessages = <<ModelTurn(<<GREETING>>)>>
    /\ isLoading = FALSE
    /\ error = Null
    /\ dossier = <<>>
    /\ clarificationAttempt = 0
    /\ proposedPlan = Absent
    /\ pc = "idle"
    /\ newMessages = <<>>
    /\ searchQueries = <<>>
    /\ loops = 0
    /\ uniqueCandidates = <<>>
    /\ sqIdx = 0
    /\ newLawsToProcess = <<>>
    /\ lawIdx = 0
    /\ fullText = ""
    /\ calls = <<>>
    /\ planSerial = 0
    /\ proposedSrc = 0
    /\ querySrc = 0
    /\ affirmedUpTo = 0
    /\ serviceCall = NoServiceCall

\* ------------------------------------------------------- ends of a turn

\* the locals of a turn that is over
LocalsGone ==
    /\ newMessages' = <<>>
    /\ searchQueries' = <<>>
    /\ loops' = 0
    /\ uniqueCandidates' = <<>>
    /\ sqIdx' = 0
    /\ newLawsToProcess' = <<>>
    /\ lawIdx' = 0
    /\ fullText' = ""
    /\ querySrc' = 0

\* finally { setIsLoading(false) }
Finally ==
    /\ isLoading' = FALSE
    /\ pc' = "idle"
    /\ LocalsGone

\* catch (err) { setError(...); setChatMessages(prev => [...prev, sorry]) }
Catch(errorMessage, messagesSoFar) ==
    /\ error' = errorMessage
    /\ chatMessages' = Append(messagesSoFar, ErrorTurn(errorMessage))
    /\ Finally


\* ========================================================= the loop revision

\* ------------------------------------------------------- handleSendMessage

\* a branching that takes an affirmation as a confirmation whatever the last
\* turn is
MessageKind_AnyTurn(lastMessage, newMessage, pending) ==
    IF IsConfirmed(newMessage) /\ pending # Absent
    THEN "confirmation"
    ELSE IF lastMessage.isAwaitingConfirmation
         THEN "feedback"
         ELSE IF lastMessage.isClarificationRequest = TRUE
              THEN "clarification"
              ELSE "fresh"

\* which branch of handleSendMessage a message takes
MessageKind(lastMessage, newMessage, pending) ==
    IF lastMessage.isAwaitingConfirmation
    THEN IF IsConfirmed(newMessage) /\ pending # Absent
         THEN "confirmation"
         ELSE "feedback"
    ELSE IF lastMessage.isClarificationRequest = TRUE
         THEN "clarification"
         ELSE "fresh"

\* a handler that carries the dossier over into a fresh query
DossierOnMessage_Keep(kind, current) == current

\* dossierRef.current after the branch of handleSendMessage
DossierOnMessage(kind, current) ==
    IF kind = "fresh" THEN <<>> ELSE current

\* proposedPlanRef.current after the branch of handleSendMessage
ProposedOnMessage(kind, current) ==
    IF kind = "fresh" THEN Absent ELSE current

\* clarificationAttemptRef.current after the branch of handleSendMessage
AttemptOnMessage(kind, current) ==
    IF kind \in {"clarification", "fresh"}
    THEN NextClarificationAttempt(kind = "clarification", current)
    ELSE current

\* the head of `while (loops < MAX_SEARCH_LOOPS)`: a round over `queries`
StartRound(queries) ==
    /\ uniqueCandidates' = <<>>
    /\ newLawsToProcess' = <<>>
    /\ lawIdx' = 0
    /\ fullText' = ""
    /\ IF queries = <<>>
       THEN sqIdx' = 0 /\ pc' = "loopPlan"
       ELSE sqIdx' = 1 /\ pc' = "candidates"

\* handleSend of the chat surface, then handleSendMessage up to its first await
SendMessage(newMessage) ==
    /\ revision = "loop"
    /\ pc = "idle"
    /\ ~isLoading
    /\ Trim(newMessage) # <<>>
    /\ Len(inputs) < MaxTurns
    /\ LET lastMessage == Last(chatMessages)
           msgs == Append(chatMessages, UserTurn(newMessage))
           kind == MessageKind(lastMessage, newMessage, proposedPlan)
       IN  /\ inputs' = Append(inputs, UserInput("message", newMessage, lastMessage))
           /\ error' = Null
           /\ isLoading' = TRUE
           /\ newMessages' = msgs
           /\ calls' = <<>>
           /\ dossier' = DossierOnMessage(kind, dossier)
           /\ clarificationAttempt' = AttemptOnMessage(kind, clarificationAttempt)
           /\ proposedPlan' = ProposedOnMessage(kind, proposedPlan)
           /\ proposedSrc' = IF kind = "fresh" THEN 0 ELSE proposedSrc
           /\ affirmedUpTo' =
                 IF lastMessage.isAwaitingConfirmation /\ IsConfirmed(newMessage)
                 THEN planSerial ELSE affirmedUpTo
           /\ UNCHANGED <<revision, serviceCall, planSerial>>
           /\ IF kind = "confirmation"
              THEN /\ chatMessages' = Append(msgs, LoadingTurn(<<STARTING>>))
                   /\ searchQueries' = ValueOf(proposedPlan)
                   /\ querySrc' = proposedSrc
                   /\ loops' = 0
                   /\ StartRound(ValueOf(proposedPlan))
              ELSE /\ chatMessages' = msgs
                   /\ pc' = "plan"
                   /\ UNCHANGED <<searchQueries, loops, uniqueCandidates, sqIdx,
                                  newLawsToProcess, lawIdx, fullText, querySrc>>

\* `await analyzeAndPlanNextStep(newMessages, dossier, clarificationAttempt)`
\* resolves; handleAiPlan(plan, newMessages)
PlanReturns(rawPlan) ==
    /\ revision = "loop"
    /\ UNCHANGED <<revision, serviceCall, inputs>>
    /\ pc = "plan"
    /\ LET dossierArg == dossier
           plan == ParsedPlan(rawPlan, dossierArg)
       IN  /\ calls' = Append(calls, PlanCall("handleSendMessage", newMessages,
                                 dossierArg, clarificationAttempt, plan.plan))
           /\ planSerial' = planSerial + 1
           /\ chatMessages' = Append(chatMessages, HandleAiPlanTurn(plan))
           /\ proposedPlan' = HandleAiPlanProposed(plan, proposedPlan)
           /\ proposedSrc' = IF plan.plan \in {"PROPOSE_PLAN", "SEARCH_MORE"}
                             THEN planSerial + 1 ELSE proposedSrc
    /\ Finally
    /\ UNCHANGED <<error, dossier, clarificationAttempt, affirmedUpTo>>

\* the same await rejects: analyzeAndPlanNextStep's catch rethrows
PlanThrows ==
    /\ revision = "loop"
    /\ UNCHANGED <<revision, serviceCall, inputs>>
    /\ pc = "plan"
    /\ calls' = Append(calls, PlanCall("handleSendMessage", newMessages,
                          dossier, clarificationAttempt, "throw"))
    /\ Catch(ERR_PLANNING, chatMessages)
    /\ UNCHANGED <<session, planSerial, proposedSrc, affirmedUpTo>>


\* ------------------------------------------------------- executeSearchLoop

\* fetchFullLawText: `if (!idNorma || idNorma === 'Desconocido') return ''`
CanReachBackend(idNorma) == idNorma # "" /\ idNorma # SENTINEL_ID

\* what fetchFullLawText(idNorma) can resolve to
FullTextsFor(idNorma) == IF CanReachBackend(idNorma) THEN FullTexts ELSE {""}

\* a loop over the new laws that goes on to the oracle after the first law
NextLaw_FirstOnly ==
    /\ fullText' = ""
    /\ lawIdx' = 0
    /\ pc' = "loopPlan"

\* the step of `for (const law of newLawsToProcess)` to the next law
NextLaw ==
    /\ fullText' = ""
    /\ IF lawIdx < Len(newLawsToProcess)
       THEN lawIdx' = lawIdx + 1 /\ pc' = "fulltext"
       ELSE lawIdx' = 0 /\ pc' = "loopPlan"

\* `await fetchLawCandidates(formattedQuery)` resolves with a listing
CandidatesReturn(candidates) ==
    /\ revision = "loop"
    /\ UNCHANGED <<revision, serviceCall, inputs>>
    /\ pc = "candidates"
    /\ LET sq == searchQueries[sqIdx]
           unique == CollectCandidates(uniqueCandidates, candidates, sq, dossier)
       IN  /\ calls' = Append(calls, SearchCall("executeSearchLoop", FormatQuery(sq),
                                               querySrc, "ok"))
           /\ uniqueCandidates' = unique
           /\ IF sqIdx < Len(searchQueries)
              THEN /\ sqIdx' = sqIdx + 1
                   /\ UNCHANGED <<pc, newLawsToProcess, lawIdx>>
              ELSE /\ sqIdx' = 0
                   /\ newLawsToProcess' = unique
                   /\ IF unique = <<>>
                      THEN lawIdx' = 0 /\ pc' = "loopPlan"
                      ELSE lawIdx' = 1 /\ pc' = "fulltext"
    /\ UNCHANGED <<surface, session, newMessages, searchQueries, loops, fullText,
                   planSerial, proposedSrc, querySrc, affirmedUpTo>>

\* `await fetchLawCandidates(formattedQuery)` rejects
CandidatesThrow ==
    /\ revision = "loop"
    /\ UNCHANGED <<revision, serviceCall, inputs>>
    /\ pc = "candidates"
    /\ calls' = Append(calls, SearchCall("executeSearchLoop", FormatQuery(searchQueries[sqIdx]),
                                          querySrc, "throw"))
    /\ Catch(ERR_CANDIDATES, chatMessages)
    /\ UNCHANGED <<session, planSerial, proposedSrc, affirmedUpTo>>

\* `await fetchFullLawText(law.id)` resolves
FullTextReturns(text) ==
    /\ revision = "loop"
    /\ UNCHANGED <<revision, serviceCall, inputs>>
    /\ pc = "fulltext"
    /\ text \in FullTextsFor(newLawsToProcess[lawIdx].id)
    /\ calls' = Append(calls, FullTextCall("executeSearchLoop", newLawsToProcess[lawIdx].id, "ok"))
    /\ IF text # ""
       THEN /\ fullText' = text
            /\ pc' = "snippets"
            /\ UNCHANGED lawIdx
       ELSE NextLaw
    /\ UNCHANGED <<surface, session, newMessages, searchQueries, loops,
                   uniqueCandidates, sqIdx, newLawsToProcess,
                   planSerial, proposedSrc, querySrc, affirmedUpTo>>

\* `await fetchFullLawText(law.id)` rejects: the leyChileService of part_000
\* throws on a failed request (the one of part_006 resolves to '' instead)
FullTextThrows ==
    /\ revision = "loop"
    /\ UNCHANGED <<revision, serviceCall, inputs>>
    /\ pc = "fulltext"
    /\ CanReachBackend(newLawsToProcess[lawIdx].id)
    /\ calls' = Append(calls, FullTextCall("executeSearchLoop", newLawsToProcess[lawIdx].id, "throw"))
    /\ Catch(ERR_FULLTEXT, chatMessages)
    /\ UNCHANGED <<session, planSerial, proposedSrc, affirmedUpTo>>

\* the query executeSearchLoop hands to extractRelevantSnippets
SnippetQuery(currentMessages) == Last(currentMessages).content

\* `await extractRelevantSnippets(...)` resolves (it never rejects);
\* dossierRef.current.set(law.id, { ...law, fullText, snippets })
SnippetsReturn(snippets) ==
    /\ revision = "loop"
    /\ UNCHANGED <<revision, serviceCall, inputs>>
    /\ pc = "snippets"
    /\ LET law == newLawsToProcess[lawIdx]
       IN  /\ calls' = Append(calls, SnippetCall("executeSearchLoop", SnippetQuery(newMessages),
                                               law.id, "ok"))
           /\ dossier' = MapSet(dossier, DossierItem(law, fullText, snippets))
    /\ NextLaw
    /\ UNCHANGED <<surface, clarificationAttempt, proposedPlan, newMessages,
                   searchQueries, loops, uniqueCandidates, sqIdx, newLawsToProcess,
                   planSerial, proposedSrc, querySrc, affirmedUpTo>>

\* a loop head with twice the budget
LoopContinues_TwiceTheBudget(n) == n < MAX_SEARCH_LOOPS + MAX_SEARCH_LOOPS

\* a loop head that admits one round too many
LoopContinues_OneMore(n) == n <= MAX_SEARCH_LOOPS

\* the condition of `while (loops < MAX_SEARCH_LOOPS)`
LoopContinues(n) == n < MAX_SEARCH_LOOPS

\* `await analyzeAndPlanNextStep(currentMessages, dossier, 0)` resolves
LoopPlanReturns(rawPlan) ==
    /\ revision = "loop"
    /\ UNCHANGED <<revision, serviceCall, inputs>>
    /\ pc = "loopPlan"
    /\ LET plan == ParsedPlan(rawPlan, dossier)
           deepening == Append(chatMessages, LoadingTurn(<<DEEPENING, plan.reasoning>>))
       IN  /\ calls' = Append(calls, PlanCall("executeSearchLoop", newMessages,
                                 dossier, 0, plan.plan))
           /\ planSerial' = planSerial + 1
           /\ CASE plan.plan = "RESPOND" ->
                     /\ chatMessages' = Append(chatMessages, RespondTurn(plan))
                     /\ Finally
                     /\ UNCHANGED error
                [] plan.plan = "SEARCH_MORE" ->
                     IF LoopContinues(loops + 1)
                     THEN /\ chatMessages' = deepening
                          /\ searchQueries' = plan.newSearchQueries
                          /\ querySrc' = planSerial + 1
                          /\ loops' = loops + 1
                          /\ StartRound(plan.newSearchQueries)
                          /\ UNCHANGED <<isLoading, error, newMessages>>
                     ELSE Catch(ERR_BUDGET, deepening)
                [] OTHER ->
                     /\ pc' = "finalPlan"
                     /\ UNCHANGED <<surface, locals, querySrc>>
    /\ UNCHANGED <<session, proposedSrc, affirmedUpTo>>

\* the same await rejects
LoopPlanThrows ==
    /\ revision = "loop"
    /\ UNCHANGED <<revision, serviceCall, inputs>>
    /\ pc = "loopPlan"
    /\ calls' = Append(calls, PlanCall("executeSearchLoop", newMessages, dossier, 0, "throw"))
    /\ Catch(ERR_PLANNING, chatMessages)
    /\ UNCHANGED <<session, planSerial, proposedSrc, affirmedUpTo>>

\* `await analyzeAndPlanNextStep(currentMessages, dossier, 99)` resolves
FinalPlanReturns(rawPlan) ==
    /\ revision = "loop"
    /\ UNCHANGED <<revision, serviceCall, inputs>>
    /\ pc = "finalPlan"
    /\ LET finalPlan == ParsedPlan(rawPlan, dossier)
       IN  /\ calls' = Append(calls, PlanCall("executeSearchLoop", newMessages,
                                 dossier, 99, finalPlan.plan))
           /\ planSerial' = planSerial + 1
           /\ IF finalPlan.plan = "RESPOND"
              THEN /\ chatMessages' = Append(chatMessages, RespondTurn(finalPlan))
                   /\ Finally
                   /\ UNCHANGED error
              ELSE Catch(ERR_NO_ANSWER, chatMessages)
    /\ UNCHANGED <<session, proposedSrc, affirmedUpTo>>

\* the same await rejects
FinalPlanThrows ==
    /\ revision = "loop"
    /\ UNCHANGED <<revision, serviceCall, inputs>>
    /\ pc = "finalPlan"
    /\ calls' = Append(calls, PlanCall("executeSearchLoop", newMessages, dossier, 99, "throw"))
    /\ Catch(ERR_PLANNING, chatMessages)
    /\ UNCHANGED <<session, planSerial, proposedSrc, affirmedUpTo>>

NextLoop ==
    \/ \E newMessage \in UserMessages : SendMessage(newMessage)
    \/ \E rawPlan \in OraclePlans : PlanReturns(rawPlan)
    \/ PlanThrows
    \/ \E candidates \in CandidateListings : CandidatesReturn(candidates)
    \/ CandidatesThrow
    \/ \E text \in FullTexts : FullTextReturns(text)
    \/ FullTextThrows
    \/ \E snippets \in SnippetLists : SnippetsReturn(snippets)
    \/ \E rawPlan \in OraclePlans : LoopPlanReturns(rawPlan)
    \/ LoopPlanThrows
    \/ \E rawPlan \in OraclePlans : FinalPlanReturns(rawPlan)
    \/ FinalPlanThrows

\* ====================================================== the single revision

\* newMessage.toLowerCase().startsWith('sí') || ...startsWith('si')
LooseConfirmed(newMessage) ==
    \/ StartsWith(ToLowerCase(newMessage), <<"s", "í">>)
    \/ StartsWith(ToLowerCase(newMessage), <<"s", "i">>)

\* prev.filter(m => !m.isAwaitingConfirmation)
WithoutAwaiting(messages) ==
    SelectSeq(messages, LAMBDA m : ~m.isAwaitingConfirmation)

\* a filter that takes every identified candidate as new
NewLaws_NoLookup(candidates, dossierNow) ==
    SelectSeq(candidates, LAMBDA c : c.id # SENTINEL_ID)

\* candidates.filter(c => c.id !== 'Desconocido' && !dossierRef.current.has(c.id))
NewLaws(candidates, dossierNow) ==
    SelectSeq(candidates, LAMBDA c : c.id # SENTINEL_ID /\ ~MapHas(dossierNow, c.id))

\* { ...law, sourceQueries: [searchQuery], snippets }
DossierItemSingle(law, searchQuery, snippets) ==
    [ id |-> law.id, title |-> law.title,
      publicationDate |-> law.publicationDate,
      effectiveDate |-> law.effectiveDate,
      link |-> law.link, lawNumber |-> law.lawNumber,
      sourceQueries |-> <<searchQuery>>, snippets |-> snippets ]

SEARCHING == "Buscando "
NO_RESULTS == "No encontré resultados. Intentaré reformular la estrategia: "
FOUND_NEW == "Encontré normativas nuevas. Analizando..."
I_PROPOSE == "Propongo buscar: "
SEARCH_DONE == "He completado la búsqueda. Si necesitas algo más, no dudes en preguntar."

\* the turn the single revision's handleAiPlan appends for a plan
HandleAiPlanTurnSingle(plan) ==
    CASE plan.plan = "CLARIFY" ->
            ChatMessage("model", <<plan.clarificationQuestion>>, Absent, FALSE, FALSE, TRUE)
      [] plan.plan \in {"PROPOSE_PLAN", "SEARCH_MORE"} ->
            ChatMessage("model", <<plan.reasoning, I_PROPOSE>> \o plan.searchQuery,
                        Absent, FALSE, TRUE, FALSE)
      [] plan.plan = "RESPOND" ->
            ChatMessage("model",
                        <<IF plan.answer # "" THEN plan.answer ELSE SEARCH_DONE>>,
                        Some(plan.references), FALSE, FALSE, FALSE)

\* a handleAiPlan that shows the proposal and does not keep the plan
HandleAiPlanProposedSingle_NotKept(plan, current) == current

\* proposedPlanRef.current after the single revision's handleAiPlan
HandleAiPlanProposedSingle(plan, current) ==
    IF plan.plan \in {"PROPOSE_PLAN", "SEARCH_MORE"} THEN Some(plan) ELSE current

\* handleAiPlan(plan): setIsLoading(false); the switch
HandleAiPlanSingle(plan, messagesSoFar) ==
    /\ isLoading' = FALSE
    /\ chatMessages' = Append(messagesSoFar, HandleAiPlanTurnSingle(plan))
    /\ proposedPlan' = HandleAiPlanProposedSingle(plan, proposedPlan)
    /\ proposedSrc' = IF plan.plan \in {"PROPOSE_PLAN", "SEARCH_MORE"}
                      THEN planSerial + 1 ELSE proposedSrc
    /\ planSerial' = planSerial + 1

\* a rejection nobody catches: handleUserConfirmation() is not awaited and
\* not inside the try of handleSendMessage; the pipeline just ends
UnhandledRejection ==
    /\ pc' = "idle"
    /\ LocalsGone
    /\ UNCHANGED <<surface, session, planSerial, proposedSrc, affirmedUpTo>>

\* an executeSearch that does not raise the busy flag
HandleUserConfirmation_NotBusy ==
    IF proposedPlan # Absent
    THEN LET planToExecute == ValueOf(proposedPlan)
         IN  /\ proposedPlan' = Absent
             /\ isLoading' = isLoading
             /\ chatMessages' = Append(WithoutAwaiting(chatMessages),
                                   LoadingTurn(<<SEARCHING>> \o planToExecute.searchQuery))
             /\ newMessages' = chatMessages
             /\ searchQueries' = <<planToExecute.searchQuery>>
             /\ querySrc' = proposedSrc
             /\ pc' = "candidates"
             /\ UNCHANGED <<loops, uniqueCandidates, sqIdx, newLawsToProcess,
                            lawIdx, fullText, proposedSrc>>
    ELSE UNCHANGED <<chatMessages, isLoading, proposedPlan, pc, locals,
                     proposedSrc, querySrc>>

\* handleUserConfirmation, then executeSearch up to its first await.
\* (executeSearch reads the chatMessages of the render it was created in.)
HandleUserConfirmation ==
    IF proposedPlan # Absent
    THEN LET planToExecute == ValueOf(proposedPlan)
         IN  /\ proposedPlan' = Absent
             /\ isLoading' = TRUE
             /\ chatMessages' = Append(WithoutAwaiting(chatMessages),
                                   LoadingTurn(<<SEARCHING>> \o planToExecute.searchQuery))
             /\ newMessages' = chatMessages
             /\ searchQueries' = <<planToExecute.searchQuery>>
             /\ querySrc' = proposedSrc
             /\ pc' = "candidates"
             /\ UNCHANGED <<loops, uniqueCandidates, sqIdx, newLawsToProcess,
                            lawIdx, fullText, proposedSrc>>
    ELSE UNCHANGED <<chatMessages, isLoading, proposedPlan, pc, locals,
                     proposedSrc, querySrc>>

\* handleSend of the chat surface, then handleSendMessage up to its first await
SingleSendMessage(newMessage) ==
    /\ revision = "single"
    /\ pc = "idle"
    /\ ~isLoading
    /\ Trim(newMessage) # <<>>
    /\ Len(inputs) < MaxTurns
    /\ inputs' = Append(inputs, UserInput("message", newMessage, Last(chatMessages)))
    /\ calls' = <<>>
    /\ error' = Null
    /\ LET lastMessage == Last(chatMessages)
       IN  IF lastMessage.isAwaitingConfirmation /\ LooseConfirmed(newMessage)
           THEN /\ HandleUserConfirmation
                /\ affirmedUpTo' = planSerial
                /\ UNCHANGED <<dossier, clarificationAttempt>>
           ELSE LET msgs == Append(WithoutAwaiting(chatMessages), UserTurn(newMessage))
                    kind == IF lastMessage.isClarificationRequest = TRUE
                            THEN "clarification" ELSE "fresh"
                IN  /\ newMessages' = msgs
                    /\ chatMessages' = msgs
                    /\ isLoading' = TRUE
                    /\ proposedPlan' = Absent
                    /\ proposedSrc' = 0
                    /\ dossier' = DossierOnMessage(kind, dossier)
                    /\ clarificationAttempt' = AttemptOnMessage(kind, clarificationAttempt)
                    /\ pc' = "plan"
                    /\ UNCHANGED <<searchQueries, loops, uniqueCandidates, sqIdx,
                                   newLawsToProcess, lawIdx, fullText, querySrc,
                                   affirmedUpTo>>
    /\ UNCHANGED <<revision, serviceCall, planSerial>>

\* the "Sí, procede" button (onConfirm), shown while nothing is loading
SingleConfirm ==
    /\ revision = "single"
    /\ pc = "idle"
    /\ ~isLoading
    /\ \E i \in 1..Len(chatMessages) : chatMessages[i].isAwaitingConfirmation
    /\ Len(inputs) < MaxTurns
    /\ inputs' = Append(inputs, UserInput("button", <<>>, Last(chatMessages)))
    /\ calls' = <<>>
    /\ HandleUserConfirmation
    /\ affirmedUpTo' = planSerial
    /\ UNCHANGED <<revision, serviceCall, error, dossier, clarificationAttempt, planSerial>>

\* handleSendMessage: `await analyzeAndPlanNextStep(newMessages, ...)` resolves
SinglePlanReturns(rawPlan) ==
    /\ revision = "single"
    /\ pc = "plan"
    /\ LET plan == ParsedPlan(rawPlan, dossier)
       IN  /\ calls' = Append(calls, PlanCall("handleSendMessage", newMessages,
                                 dossier, clarificationAttempt, plan.plan))
           /\ HandleAiPlanSingle(plan, chatMessages)
    /\ pc' = "idle"
    /\ LocalsGone
    /\ UNCHANGED <<revision, serviceCall, inputs, error, dossier, clarificationAttempt, affirmedUpTo>>

\* the same await rejects: caught by handleSendMessage
SinglePlanThrows ==
    /\ revision = "single"
    /\ pc = "plan"
    /\ calls' = Append(calls, PlanCall("handleSendMessage", newMessages,
                          dossier, clarificationAttempt, "throw"))
    /\ Catch(ERR_PLANNING, chatMessages)
    /\ UNCHANGED <<revision, serviceCall, inputs, session, planSerial, proposedSrc, affirmedUpTo>>

\* the step of `for (const law of newLaws)` to the next law
NextLawSingle ==
    /\ fullText' = ""
    /\ IF lawIdx < Len(newLawsToProcess)
       THEN lawIdx' = lawIdx + 1 /\ pc' = "fulltext"
       ELSE lawIdx' = 0 /\ pc' = "finalPlan"

\* executeSearch: `await fetchLawCandidates(formattedQuery)` resolves
SingleCandidatesReturn(candidates) ==
    /\ revision = "single"
    /\ pc = "candidates"
    /\ LET searchQuery == searchQueries[1]
           newLaws == NewLaws(candidates, dossier)
       IN  /\ calls' = Append(calls, SearchCall("executeSearch", FormatQuery(searchQuery),
                                               querySrc, "ok"))
           /\ IF Len(candidates) = 0
              THEN /\ chatMessages' = Append(chatMessages,
                                         ModelTurn(<<NO_RESULTS>> \o searchQuery))
                   /\ pc' = "nextPlan"
                   /\ UNCHANGED <<newLawsToProcess, lawIdx>>
              ELSE IF Len(newLaws) > 0
              THEN /\ chatMessages' = Append(chatMessages, LoadingTurn(<<FOUND_NEW>>))
                   /\ newLawsToProcess' = newLaws
                   /\ lawIdx' = 1
                   /\ pc' = "fulltext"
              ELSE /\ pc' = "finalPlan"
                   /\ UNCHANGED <<chatMessages, newLawsToProcess, lawIdx>>
    /\ UNCHANGED <<revision, serviceCall, inputs, isLoading, error, session, newMessages, searchQueries,
                   loops, uniqueCandidates, sqIdx, fullText,
                   planSerial, proposedSrc, querySrc, affirmedUpTo>>

\* the same await rejects
SingleCandidatesThrow ==
    /\ revision = "single"
    /\ pc = "candidates"
    /\ calls' = Append(calls, SearchCall("executeSearch", FormatQuery(searchQueries[1]),
                                          querySrc, "throw"))
    /\ UnhandledRejection
    /\ UNCHANGED <<revision, serviceCall, inputs>>

\* the dossier write of executeSearch for the law in hand
StoreLawSingle(snippets) ==
    dossier' = MapSet(dossier, DossierItemSingle(newLawsToProcess[lawIdx],
                                                 searchQueries[1], snippets))

\* executeSearch: `await fetchFullLawText(law.id)` resolves
SingleFullTextReturns(text) ==
    /\ revision = "single"
    /\ pc = "fulltext"
    /\ text \in FullTextsFor(newLawsToProcess[lawIdx].id)
    /\ calls' = Append(calls, FullTextCall("executeSearch", newLawsToProcess[lawIdx].id, "ok"))
    /\ IF text # ""
       THEN /\ fullText' = text
            /\ pc' = "snippets"
            /\ UNCHANGED <<lawIdx, dossier>>
       ELSE /\ StoreLawSingle(<<>>)
            /\ NextLawSingle
    /\ UNCHANGED <<revision, serviceCall, inputs, surface, clarificationAttempt, proposedPlan, newMessages,
                   searchQueries, loops, uniqueCandidates, sqIdx, newLawsToProcess,
                   planSerial, proposedSrc, querySrc, affirmedUpTo>>

\* the same await rejects
SingleFullTextThrows ==
    /\ revision = "single"
    /\ pc = "fulltext"
    /\ CanReachBackend(newLawsToProcess[lawIdx].id)
    /\ calls' = Append(calls, FullTextCall("executeSearch", newLawsToProcess[lawIdx].id, "throw"))
    /\ UnhandledRejection
    /\ UNCHANGED <<revision, serviceCall, inputs>>

\* the query executeSearch hands to extractRelevantSnippets
SnippetQuerySingle(capturedMessages) == capturedMessages[1].content

\* executeSearch: `await extractRelevantSnippets(...)` resolves
SingleSnippetsReturn(snippets) ==
    /\ revision = "single"
    /\ pc = "snippets"
    /\ calls' = Append(calls, SnippetCall("executeSearch", SnippetQuerySingle(newMessages),
                                           newLawsToProcess[lawIdx].id, "ok"))
    /\ StoreLawSingle(snippets)
    /\ NextLawSingle
    /\ UNCHANGED <<revision, serviceCall, inputs, surface, clarificationAttempt, proposedPlan, newMessages,
                   searchQueries, loops, uniqueCandidates, sqIdx, newLawsToProcess,
                   planSerial, proposedSrc, querySrc, affirmedUpTo>>

\* executeSearch: `await analyzeAndPlanNextStep(chatMessages, ...)` resolves,
\* after zero candidates (nextPlan) or after the analysis (finalPlan)
SingleSearchPlanReturns(rawPlan) ==
    /\ revision = "single"
    /\ pc \in {"nextPlan", "finalPlan"}
    /\ LET plan == ParsedPlan(rawPlan, dossier)
       IN  /\ calls' = Append(calls, PlanCall("executeSearch", newMessages,
                                 dossier, clarificationAttempt, plan.plan))
           /\ HandleAiPlanSingle(plan, chatMessages)
    /\ pc' = "idle"
    /\ LocalsGone
    /\ UNCHANGED <<revision, serviceCall, inputs, error, dossier, clarificationAttempt, affirmedUpTo>>

\* the same await rejects
SingleSearchPlanThrows ==
    /\ revision = "single"
    /\ pc \in {"nextPlan", "finalPlan"}
    /\ calls' = Append(calls, PlanCall("executeSearch", newMessages,
                          dossier, clarificationAttempt, "throw"))
    /\ UnhandledRejection
    /\ UNCHANGED <<revision, serviceCall, inputs>>

NextSingle ==
    \/ \E newMessage \in UserMessagesSingle : SingleSendMessage(newMessage)
    \/ SingleConfirm
    \/ \E rawPlan \in OraclePlansSingle : SinglePlanReturns(rawPlan)
    \/ SinglePlanThrows
    \/ \E candidates \in CandidateListings : SingleCandidatesReturn(candidates)
    \/ SingleCandidatesThrow
    \/ \E text \in FullTexts : SingleFullTextReturns(text)
    \/ SingleFullTextThrows
    \/ \E snippets \in SnippetLists : SingleSnippetsReturn(snippets)
    \/ \E rawPlan \in OraclePlansSingle : SingleSearchPlanReturns(rawPlan)
    \/ SingleSearchPlanThrows

\* ------------------------------------------------------------ specifications

Next == NextLoop \/ NextSingle

Spec == Init /\ [][Next]_vars

InitLoop == Init /\ revision = "loop"

SpecLoop == InitLoop /\ [][NextLoop]_vars

InitSingle == Init /\ revision = "single"

SpecSingle == InitSingle /\ [][NextSingle]_vars

\* ------------------------------------------------- fair specifications
\* Every pending await of the pipeline settles: the external call returns or
\* throws. The user is under no obligation to send anything.

AwaitSettles ==
    \/ \E rawPlan \in OraclePlans : PlanReturns(rawPlan)
    \/ PlanThrows
    \/ \E candidates \in CandidateListings : CandidatesReturn(candidates)
    \/ CandidatesThrow
    \/ \E text \in FullTexts : FullTextReturns(text)
    \/ FullTextThrows
    \/ \E snippets \in SnippetLists : SnippetsReturn(snippets)
    \/ \E rawPlan \in OraclePlans : LoopPlanReturns(rawPlan)
    \/ LoopPlanThrows
    \/ \E rawPlan \in OraclePlans : FinalPlanReturns(rawPlan)
    \/ FinalPlanThrows

AwaitSettlesSingle ==
    \/ \E rawPlan \in OraclePlansSingle : SinglePlanReturns(rawPlan)
    \/ SinglePlanThrows
    \/ \E candidates \in CandidateListings : SingleCandidatesReturn(candidates)
    \/ SingleCandidatesThrow
    \/ \E text \in FullTexts : SingleFullTextReturns(text)
    \/ SingleFullTextThrows
    \/ \E snippets \in SnippetLists : SingleSnippetsReturn(snippets)
    \/ \E rawPlan \in OraclePlansSingle : SingleSearchPlanReturns(rawPlan)
    \/ SingleSearchPlanThrows

FairSpecLoop == SpecLoop /\ WF_vars(AwaitSettles)

FairSpecSingle == SpecSingle /\ WF_vars(AwaitSettlesSingle)

\* =========================================================== the services

\* ------------------------------------------------ geminiService: the texts

\* a JSON value as JSON.parse returns it: null, a number, an array of strings
\* (items) or an object (the keys it has, and their values as a plan record)
Json(kind, keys, fields, items) ==
    [ kind |-> kind, keys |-> keys, fields |-> fields, items |-> items ]

NoFields == PlanRecord(Null, Null, Null, <<>>, <<>>, Null, Null, <<>>)

JsonNull == Json("null", {}, NoFields, <<>>)
JsonNumber == Json("number", {}, NoFields, <<>>)
JsonArray(items) == Json("array", {}, NoFields, items)
JsonObject(keys, fields) == Json("object", keys, fields, <<>>)

\* response.text: nothing, or a body that is JSON or is not, bare or wrapped
\* in a markdown code fence
ResponseText(empty, fenced, wellFormed, value) ==
    [ empty |-> empty, fenced |-> fenced, wellFormed |-> wellFormed, value |-> value ]

NoText == ResponseText(TRUE, FALSE, FALSE, JsonNull)
Garbage == ResponseText(FALSE, FALSE, FALSE, JsonNull)
Bare(value) == ResponseText(FALSE, FALSE, TRUE, value)
Fenced(value) == ResponseText(FALSE, TRUE, TRUE, value)

\* what `await ai.models.generateContent(...)` does: it rejects, or resolves
\* to a response with a text
Upstream(threw, text) == [ threw |-> threw, text |-> text ]

UpstreamThrows == Upstream(TRUE, NoText)
UpstreamText(text) == Upstream(FALSE, text)

\* JSON.parse(text): a SyntaxError unless the whole text is one JSON value
\* (a code fence around the value is not JSON)
JsonParse(text) ==
    IF text.wellFormed /\ ~text.fenced
    THEN [ error |-> FALSE, value |-> text.value ]
    ELSE [ error |-> TRUE, value |-> JsonNull ]

\* what a service function comes back with: a value, or an Error with a message
Returned(value) == [ status |-> "ok", error |-> Null, value |-> value ]
Thrown(message) == [ status |-> "throw", error |-> message, value |-> JsonNull ]

\* ------------------------------------------- geminiService: the functions

\* a snippet extraction without the try/catch around the call and the parse
ExtractRelevantSnippets_NoCatch(upstream) ==
    IF upstream.threw
    THEN Thrown("upstream")
    ELSE IF upstream.text.empty
         THEN Returned(JsonArray(<<>>))
         ELSE LET parsed == JsonParse(upstream.text)
              IN  IF parsed.error
                  THEN Thrown("SyntaxError")
                  ELSE Returned(parsed.value)

\* extractRelevantSnippets: the try block and its catch
\*   return response.text ? JSON.parse(response.text) : [];  catch { return [] }
ExtractRelevantSnippets(upstream) ==
    IF upstream.threw
    THEN Returned(JsonArray(<<>>))
    ELSE IF upstream.text.empty
         THEN Returned(JsonArray(<<>>))
         ELSE LET parsed == JsonParse(upstream.text)
              IN  IF parsed.error
                  THEN Returned(JsonArray(<<>>))
                  ELSE Returned(parsed.value)

\* analyzeAndPlanNextStep: the try block and its catch.  A throw inside the
\* try (the upstream call, the empty text, JSON.parse, reading `.plan` of
\* null, `.map` of a missing references) ends in the catch, which throws the
\* planning error; anything else that parsed is returned as it is.
AnalyzeAndPlanNextStep(upstream, dossierArg) ==
    IF upstream.threw \/ upstream.text.empty
    THEN Thrown(ERR_PLANNING)
    ELSE LET parsed == JsonParse(upstream.text)
             parsedPlan == parsed.value
         IN  IF parsed.error \/ parsedPlan.kind = "null"
             THEN Thrown(ERR_PLANNING)
             ELSE IF /\ parsedPlan.kind = "object"
                     /\ "plan" \in parsedPlan.keys
                     /\ parsedPlan.fields.plan = "RESPOND"
                  THEN IF "references" \in parsedPlan.keys
                       THEN Returned(JsonObject(parsedPlan.keys,
                                         ParsedPlan(parsedPlan.fields, dossierArg)))
                       ELSE Thrown(ERR_PLANNING)
                  ELSE Returned(parsedPlan)

\* ---------------------------------------------- geminiService: the inputs

\* the keys each plan shape requires (types.ts)
RequiredKeys(plan) ==
    CASE plan = "RESPOND" -> {"plan", "answer", "references"}
      [] plan = "CLARIFY" -> {"plan", "clarificationQuestion"}
      [] plan = "SEARCH_MORE" -> {"plan", "newSearchQueries", "reasoning"}
      [] plan = "PROPOSE_PLAN" -> {"plan", "proposal", "newSearchQueries"}
      [] OTHER -> {"plan"}

PlanTags == {"RESPOND", "CLARIFY", "SEARCH_MORE", "PROPOSE_PLAN"}

\* a plan record without the value of one key
WithoutKey(fields, key) ==
    CASE key = "plan" -> [fields EXCEPT !.plan = Null]
      [] key = "answer" -> [fields EXCEPT !.answer = Null]
      [] key = "references" -> [fields EXCEPT !.references = <<>>]
      [] key = "clarificationQuestion" -> [fields EXCEPT !.clarificationQuestion = Null]
      [] key = "newSearchQueries" -> [fields EXCEPT !.newSearchQueries = <<>>]
      [] key = "reasoning" -> [fields EXCEPT !.reasoning = Null]
      [] key = "proposal" -> [fields EXCEPT !.proposal = Null]

\* the reference lists the planning oracle can write: none, one that is in
\* the dossier, one that is not, and several in an order of its own
ReferenceLists ==
    { <<>>,
      <<OracleReference("A")>>,
      <<OracleReference("Z")>>,
      <<OracleReference("B"), OracleReference("Z"), OracleReference("A")>> }

\* the plan objects the planning oracle can write: of a shape, of a shape
\* with one required key left out, or with a tag that is no shape's
PlanObjects ==
    LET shaped == { ClarifyPlan, ProposePlan(<<QueryA, QueryB>>), SearchMorePlan(<<QueryC>>) }
                  \cup { RespondPlan(refs) : refs \in ReferenceLists }
        unknown == PlanRecord("SUMMARIZE", Null, Null, <<>>, <<>>, Null, "respuesta", <<>>)
    IN  { JsonObject(RequiredKeys(p.plan), p) : p \in shaped }
        \cup { JsonObject(RequiredKeys(p.plan) \ {k}, WithoutKey(p, k)) :
                   p \in shaped, k \in {"plan", "answer", "references",
                                        "clarificationQuestion", "newSearchQueries",
                                        "reasoning", "proposal"} }
        \cup { JsonObject({"plan", "answer"}, unknown) }

\* what the planning model can answer with
PlanUpstreams ==
    { UpstreamThrows, UpstreamText(NoText), UpstreamText(Garbage) }
    \cup { UpstreamText(Bare(v)) : v \in PlanObjects \cup {JsonNull, JsonNumber} }
    \cup { UpstreamText(Fenced(v)) : v \in {JsonObject(RequiredKeys("CLARIFY"), ClarifyPlan)} }

\* what the snippet model can answer with
SnippetUpstreams ==
    { UpstreamThrows, UpstreamText(NoText), UpstreamText(Garbage) }
    \cup { UpstreamText(Bare(JsonArray(items))) :
               items \in {<<>>, <<"fragmento">>, <<"fragmento", "otro">>} }
    \cup { UpstreamText(Fenced(JsonArray(items))) :
               items \in {<<>>, <<"fragmento">>, <<"fragmento", "otro">>} }

\* a dossier entry as the controller stores it
DossierEntry(id, title, sq) ==
    DossierItem(ResultItem(FetchedItem(id, title), sq), "texto", <<"fragmento">>)

\* the dossiers the controller can pass
DossierArgs ==
    { <<>>,
      <<DossierEntry("A", "t1", QueryA)>>,
      <<DossierEntry("B", "t1", QueryC)>>,
      <<DossierEntry("A", "t2", QueryB), DossierEntry("B", "t1", QueryC)>> }

\* ------------------------------------------------ leyChileService: strings

Digits == {"0", "1", "2", "3", "4", "5", "6", "7", "8", "9"}

Letters ==
    { "a", "b", "c", "d", "e", "f", "g", "h", "i", "j", "k", "l", "m",
      "n", "o", "p", "q", "r", "s", "t", "u", "v", "w", "x", "y", "z",
      "A", "B", "C", "D", "E", "F", "G", "H", "I", "J", "K", "L", "M",
      "N", "O", "P", "Q", "R", "S", "T", "U", "V", "W", "X", "Y", "Z" }

\* \d and \w of a JavaScript pattern
IsDigit(c) == c \in Digits
IsWordChar(c) == c \in Letters \cup Digits \cup {"_"}

\* s.substring(from - 1)
From(s, from) == SubSeq(s, from, Len(s))

\* s.indexOf(pat, from - 1) + 1: the first place at or after `from` where pat
\* stands, 0 when there is none
IndexOf(s, pat, from) ==
    LET places == { i \in from..(Len(s) - Len(pat) + 1) :
                        SubSeq(s, i, i + Len(pat) - 1) = pat }
    IN  IF places = {} THEN 0
        ELSE CHOOSE i \in places : \A j \in places : i <= j

\* s.includes(pat)
Includes(s, pat) == IndexOf(s, pat, 1) # 0

\* s.replace(/pat/g, rep) for a pattern that is a plain text
RECURSIVE ReplaceAll(_, _, _)
ReplaceAll(s, pat, rep) ==
    LET i == IndexOf(s, pat, 1)
    IN  IF i = 0 THEN s
        ELSE SubSeq(s, 1, i - 1) \o rep \o ReplaceAll(From(s, i + Len(pat)), pat, rep)

\* a match of a pattern: whether it matched, its first capture group, and
\* the place after the match
Match(found, group, after) == [ found |-> found, group |-> group, after |-> after ]
NoMatch == Match(FALSE, <<>>, 0)

\* s.match(/open([\s\S]*?)close/): the first `open`, and the text up to the
\* first `close` after it
MatchBetween(s, open, close) ==
    LET i == IndexOf(s, open, 1)
        j == IF i = 0 THEN 0 ELSE IndexOf(s, close, i + Len(open))
    IN  IF j = 0 THEN NoMatch
        ELSE Match(TRUE, SubSeq(s, i + Len(open), j - 1), j + Len(close))

\* -------------------------------- leyChileService (part_000): the patterns

UNKNOWN_ID == <<"D", "e", "s", "c", "o", "n", "o", "c", "i", "d", "o">>
NO_TITLE == <<"T", "í", "t", "u", "l", "o", " ", "n", "o", " ", "e", "n", "c", "o", "n", "t", "r", "a", "d", "o">>
NOT_REPORTED == <<"N", "o", " ", "i", "n", "f", "o", "r", "m", "a", "d", "o">>

\* .replace(/&amp;/g, '&').replace(/&lt;/g, '<') ... .replace(/&nbsp;/g, ' ')
DecodeEntities(s) ==
    LET amp == ReplaceAll(s, <<"&", "a", "m", "p", ";">>, <<"&">>)
        lt == ReplaceAll(amp, <<"&", "l", "t", ";">>, <<"<">>)
        gt == ReplaceAll(lt, <<"&", "g", "t", ";">>, <<">">>)
        quot == ReplaceAll(gt, <<"&", "q", "u", "o", "t", ";">>, <<"\"">>)
        apos == ReplaceAll(quot, <<"&", "#", "3", "9", ";">>, <<"'">>)
    IN  ReplaceAll(apos, <<"&", "n", "b", "s", "p", ";">>, <<" ">>)

\* findValueByRegex, given the match of its pattern: undefined (Absent)
\* unless the pattern matched and its group is not empty
FindValueByRegex(match) ==
    IF match.found /\ match.group # <<>>
    THEN Some(DecodeEntities(Trim(match.group)))
    ELSE Absent

\* a || b for values that are a text or undefined
OrElse(a, b) == IF a # Absent /\ ValueOf(a) # <<>> THEN a ELSE b

\* the place after `head\s+tail` when it stands at place i of s, else 0
SpacedAt(s, i, head, tail) ==
    LET afterHead == i + Len(head)
        afterSpace == afterHead + (Len(From(s, afterHead)) - Len(TrimStart(From(s, afterHead))))
    IN  IF /\ SubSeq(s, i, afterHead - 1) = head
           /\ afterSpace > afterHead
           /\ afterSpace + Len(tail) - 1 <= Len(s)
           /\ SubSeq(s, afterSpace, afterSpace + Len(tail) - 1) = tail
        THEN afterSpace + Len(tail)
        ELSE 0

\* the first place at or after `from` where `head\s+tail` stands, as the
\* pair <<place, place after it>>; <<0, 0>> when there is none
RECURSIVE IndexOfSpaced(_, _, _, _)
IndexOfSpaced(s, head, tail, from) ==
    LET i == IndexOf(s, head, from)
    IN  IF i = 0 THEN <<0, 0>>
        ELSE IF SpacedAt(s, i, head, tail) # 0 THEN <<i, SpacedAt(s, i, head, tail)>>
        ELSE IndexOfSpaced(s, head, tail, i + 1)

\* [^"]+ at place i: the run of characters other than the quote
RECURSIVE UnquotedRun(_, _)
UnquotedRun(s, i) ==
    IF i > Len(s) \/ s[i] = "\"" THEN <<>>
    ELSE <<s[i]>> \o UnquotedRun(s, i + 1)

\* s.match(/<Norma\s+id="([^"]+)"/)
RECURSIVE MatchNormaId(_, _)
MatchNormaId(s, from) ==
    LET at == IndexOfSpaced(s, <<"<", "N", "o", "r", "m", "a">>, <<"i", "d", "=", "\"">>, from)
        run == UnquotedRun(s, at[2])
    IN  IF at[1] = 0 THEN NoMatch
        ELSE IF run # <<>> /\ at[2] + Len(run) <= Len(s)
             THEN Match(TRUE, run, at[2] + Len(run) + 1)
             ELSE MatchNormaId(s, at[1] + 1)

\* s.match(/<Identificador\s+tipo="Número Ley">([\s\S]*?)<\/Identificador>/)
MatchNumeroLey(s) ==
    LET at == IndexOfSpaced(s, <<"<", "I", "d", "e", "n", "t", "i", "f", "i", "c", "a", "d", "o", "r">>, <<"t", "i", "p", "o", "=", "\"", "N", "ú", "m", "e", "r", "o", " ", "L", "e", "y", "\"", ">">>, 1)
        j == IF at[1] = 0 THEN 0 ELSE IndexOf(s, <<"<", "/", "I", "d", "e", "n", "t", "i", "f", "i", "c", "a", "d", "o", "r", ">">>, at[2])
    IN  IF j = 0 THEN NoMatch
        ELSE Match(TRUE, SubSeq(s, at[2], j - 1), j + Len(<<"<", "/", "I", "d", "e", "n", "t", "i", "f", "i", "c", "a", "d", "o", "r", ">">>))

\* s.match(/<Metadatos>[\s\S]*?<Norma>[\s\S]*?<Titulo>([\s\S]*?)<\/Titulo>
\*          [\s\S]*?<\/Norma>[\s\S]*?<\/Metadatos>/)
MatchMetadataTitle(s) ==
    LET m == IndexOf(s, <<"<", "M", "e", "t", "a", "d", "a", "t", "o", "s", ">">>, 1)
        n == IF m = 0 THEN 0 ELSE IndexOf(s, <<"<", "N", "o", "r", "m", "a", ">">>, m + Len(<<"<", "M", "e", "t", "a", "d", "a", "t", "o", "s", ">">>))
        title == IF n = 0 THEN NoMatch
                 ELSE MatchBetween(From(s, n + Len(<<"<", "N", "o", "r", "m", "a", ">">>)), <<"<", "T", "i", "t", "u", "l", "o", ">">>, <<"<", "/", "T", "i", "t", "u", "l", "o", ">">>)
        rest == IF title.found THEN From(s, n + Len(<<"<", "N", "o", "r", "m", "a", ">">>) + title.after - 1) ELSE <<>>
        endNorma == IndexOf(rest, <<"<", "/", "N", "o", "r", "m", "a", ">">>, 1)
        endMeta == IF endNorma = 0 THEN 0
                   ELSE IndexOf(rest, <<"<", "/", "M", "e", "t", "a", "d", "a", "t", "o", "s", ">">>, endNorma + Len(<<"<", "/", "N", "o", "r", "m", "a", ">">>))
    IN  IF endMeta = 0 THEN NoMatch ELSE Match(TRUE, title.group, 0)

\* findId
FindId(normaBlock) ==
    ValueOf(OrElse(FindValueByRegex(MatchBetween(normaBlock, <<"<", "I", "d", "N", "o", "r", "m", "a", ">">>, <<"<", "/", "I", "d", "N", "o", "r", "m", "a", ">">>)),
            OrElse(FindValueByRegex(MatchNormaId(normaBlock, 1)),
                   Some(UNKNOWN_ID))))

\* findLawNumber: a text, or undefined (Absent)
FindLawNumber(normaBlock) ==
    OrElse(FindValueByRegex(MatchBetween(normaBlock, <<"<", "N", "u", "m", "e", "r", "o", ">">>, <<"<", "/", "N", "u", "m", "e", "r", "o", ">">>)),
           FindValueByRegex(MatchNumeroLey(normaBlock)))

\* findTitle
FindTitle(normaBlock) ==
    ValueOf(OrElse(FindValueByRegex(MatchBetween(normaBlock, <<"<", "T", "i", "t", "u", "l", "o", "N", "o", "r", "m", "a", ">">>, <<"<", "/", "T", "i", "t", "u", "l", "o", "N", "o", "r", "m", "a", ">">>)),
            OrElse(FindValueByRegex(MatchMetadataTitle(normaBlock)),
                   Some(NO_TITLE))))

\* /(\d{2}-\w{3}-\d{4})/i stands at place i of s
DateTokenAt(s, i) ==
    /\ i + 10 <= Len(s)
    /\ IsDigit(s[i]) /\ IsDigit(s[i + 1])
    /\ s[i + 2] = "-"
    /\ IsWordChar(s[i + 3]) /\ IsWordChar(s[i + 4]) /\ IsWordChar(s[i + 5])
    /\ s[i + 6] = "-"
    /\ IsDigit(s[i + 7]) /\ IsDigit(s[i + 8]) /\ IsDigit(s[i + 9]) /\ IsDigit(s[i + 10])

\* content.match(dateRegex): match[0] of the first match, Absent for null
MatchDate(s, from) ==
    LET places == { i \in from..(Len(s) - 10) : DateTokenAt(s, i) }
        first == CHOOSE i \in places : \A j \in places : i <= j
    IN  IF places = {} THEN Absent ELSE Some(SubSeq(s, first, first + 10))

\* one <Tag>([\s\S]*?)</Tag> pattern
TagPattern(open, close) == [ open |-> open, close |-> close ]

\* tagMap[keyword]
TagMap(keyword) ==
    CASE keyword = "Publicación" ->
            << TagPattern(<<"<", "F", "e", "c", "h", "a", "P", "u", "b", "l", "i", "c", "a", "c", "i", "o", "n", ">">>, <<"<", "/", "F", "e", "c", "h", "a", "P", "u", "b", "l", "i", "c", "a", "c", "i", "o", "n", ">">>) >>
      [] keyword = "Vigencia|Inicio" ->
            << TagPattern(<<"<", "I", "n", "i", "c", "i", "o", "V", "i", "g", "e", "n", "c", "i", "a", ">">>, <<"<", "/", "I", "n", "i", "c", "i", "o", "V", "i", "g", "e", "n", "c", "i", "a", ">">>),
               TagPattern(<<"<", "F", "e", "c", "h", "a", "V", "i", "g", "e", "n", "c", "i", "a", ">">>, <<"<", "/", "F", "e", "c", "h", "a", "V", "i", "g", "e", "n", "c", "i", "a", ">">>) >>
      [] OTHER -> <<>>

\* the `for (const regex of regexes)` of findDate, then 'No informado'
RECURSIVE FindDateIn(_, _)
FindDateIn(normaBlock, regexes) ==
    IF regexes = <<>> THEN NOT_REPORTED
    ELSE LET regex == Head(regexes)
             content == FindValueByRegex(MatchBetween(normaBlock, regex.open, regex.close))
         IN  IF /\ content # Absent
                /\ ValueOf(content) # <<>>
                /\ MatchDate(ValueOf(content), 1) # Absent
             THEN ValueOf(MatchDate(ValueOf(content), 1))
             ELSE FindDateIn(normaBlock, Tail(regexes))

\* findDate
FindDate(normaBlock, keyword) == FindDateIn(normaBlock, TagMap(keyword))

\* ------------------------ leyChileService (part_000): fetchLawCandidates

SHORT_PAYLOAD == 200

ERR_CONNECT == "No se pudo conectar con el servicio de LeyChile."
ERR_STATUS == "La solicitud directa falló con estado: 500"
ERR_SERVER == "El servidor de LeyChile devolvió un error: "
ERR_NOT_XML == "La respuesta de LeyChile no es un XML válido."

LINK_PREFIX == <<"h", "t", "t", "p", "s", ":", "/", "/", "w", "w", "w", ".", "l", "e", "y", "c", "h", "i", "l", "e", ".", "c", "l", "/", "n", "a", "v", "e", "g", "a", "r", "?", "i", "d", "N", "o", "r", "m", "a", "=">>

\* what `await fetch(url)` does: it rejects ("Failed to fetch"), or resolves
\* to a response with a status and a text; xmlDoc is what the browser's
\* DOMParser makes of that text (read by part_006 only)
BackendResponse(failed, ok, xmlText, xmlDoc) ==
    [ failed |-> failed, ok |-> ok, xmlText |-> xmlText, xmlDoc |-> xmlDoc ]

\* FetchedItem with its texts character by character
Candidate(id, title, publicationDate, effectiveDate, lawNumber) ==
    [ id |-> id, title |-> title, publicationDate |-> publicationDate,
      effectiveDate |-> effectiveDate, link |-> LINK_PREFIX \o id,
      lawNumber |-> lawNumber ]

\* xmlText.match(/<Norma[\s\S]*?<\/Norma>/g) || []
RECURSIVE NormaBlocks(_)
NormaBlocks(xmlText) ==
    LET i == IndexOf(xmlText, <<"<", "N", "o", "r", "m", "a">>, 1)
        j == IF i = 0 THEN 0 ELSE IndexOf(xmlText, <<"<", "/", "N", "o", "r", "m", "a", ">">>, i + Len(<<"<", "N", "o", "r", "m", "a">>))
    IN  IF j = 0 THEN <<>>
        ELSE <<SubSeq(xmlText, i, j + Len(<<"<", "/", "N", "o", "r", "m", "a", ">">>) - 1)>>
             \o NormaBlocks(From(xmlText, j + Len(<<"<", "/", "N", "o", "r", "m", "a", ">">>)))

\* normaBlocks.map(block => ...)
CandidateOfBlock(block) ==
    Candidate(FindId(block), FindTitle(block), FindDate(block, "Publicación"),
              FindDate(block, "Vigencia|Inicio"), FindLawNumber(block))

\* the check "does not look like a listing" of fetchLawCandidates
NotAListing(xmlText) ==
    \/ ~StartsWith(Trim(xmlText), <<"<">>)
    \/ (~Includes(xmlText, <<"<", "N", "o", "r", "m", "a">>) /\ ~Includes(xmlText, <<"<", "L", "i", "s", "t", "a", "d", "o">>))

\* the catch of fetchLawCandidates: an error whose message holds
\* "failed to fetch" is replaced by the connection error
Rethrown(message, detail) ==
    IF Includes(ToLowerCase(detail), <<"f", "a", "i", "l", "e", "d", " ", "t", "o", " ", "f", "e", "t", "c", "h">>)
    THEN Thrown(ERR_CONNECT)
    ELSE Thrown(message)

\* fetchLawCandidates of part_000
FetchLawCandidates(response) ==
    IF response.failed THEN Thrown(ERR_CONNECT)
    ELSE IF ~response.ok THEN Thrown(ERR_STATUS)
    ELSE LET xmlText == response.xmlText
         IN  IF NotAListing(xmlText)
             THEN IF /\ Len(xmlText) < SHORT_PAYLOAD
                     /\ Includes(ToLowerCase(xmlText), <<"e", "r", "r", "o", "r">>)
                  THEN Rethrown(ERR_SERVER, xmlText)
                  ELSE Returned(<<>>)
             ELSE LET normaBlocks == NormaBlocks(xmlText)
                  IN  Returned([i \in 1..Len(normaBlocks) |->
                                    CandidateOfBlock(normaBlocks[i])])

\* ------------------------- leyChileService (part_000): fetchFullLawText

FULLTEXT_MIN == 100
ERR_FETCH == "Failed to fetch"

\* where a match of /<[^>]+(>|$)/ starts at or after `from`: a '<' followed
\* by a character other than '>'; 0 for none
TagStart(s, from) ==
    LET places == { i \in from..(Len(s) - 1) : s[i] = "<" /\ s[i + 1] # ">" }
    IN  IF places = {} THEN 0
        ELSE CHOOSE i \in places : \A j \in places : i <= j

\* where the match that starts at i ends: the first '>' after it, else the
\* end of the text
TagEnd(s, i) ==
    LET closes == { j \in (i + 2)..Len(s) : s[j] = ">" }
    IN  IF closes = {} THEN Len(s)
        ELSE CHOOSE j \in closes : \A k \in closes : j <= k

\* .replace(/<[^>]+(>|$)/g, " ")
RECURSIVE StripTags(_)
StripTags(s) ==
    LET i == TagStart(s, 1)
    IN  IF i = 0 THEN s
        ELSE SubSeq(s, 1, i - 1) \o <<" ">> \o StripTags(From(s, TagEnd(s, i) + 1))

\* .replace(/\s{2,}/g, ' '): a run of two or more spaces becomes one space
CollapseSpaces(s) ==
    LET inRun(i) == /\ IsSpace(s[i])
                    /\ \/ (i > 1 /\ IsSpace(s[i - 1]))
                       \/ (i < Len(s) /\ IsSpace(s[i + 1]))
        kept == SelectSeq([i \in 1..Len(s) |-> i],
                          LAMBDA i : ~(inRun(i) /\ i > 1 /\ IsSpace(s[i - 1])))
    IN  [k \in 1..Len(kept) |-> IF inRun(kept[k]) THEN " " ELSE s[kept[k]]]

\* .replace(/<[^>]+(>|$)/g, " ").replace(/\s{2,}/g, ' ').trim()
PlainText(s) == Trim(CollapseSpaces(StripTags(s)))

\* the first place at or after `from` where one of the patterns stands
FirstOf(s, pats, from) ==
    LET found == { h \in { [ at |-> IndexOf(s, p, from), pat |-> p ] : p \in pats } :
                       h.at # 0 }
    IN  IF found = {} THEN [ at |-> 0, pat |-> <<>> ]
        ELSE CHOOSE h \in found : \A g \in found : h.at <= g.at

\* responseText.match(/<(?:Texto|Contenido)>([\s\S]*?)<\/(?:Texto|Contenido)>/)
MatchContent(responseText) ==
    LET open == FirstOf(responseText, { <<"<", "T", "e", "x", "t", "o", ">">>, <<"<", "C", "o", "n", "t", "e", "n", "i", "d", "o", ">">> }, 1)
        close == IF open.at = 0 THEN open
                 ELSE FirstOf(responseText, { <<"<", "/", "T", "e", "x", "t", "o", ">">>, <<"<", "/", "C", "o", "n", "t", "e", "n", "i", "d", "o", ">">> },
                              open.at + Len(open.pat))
    IN  IF close.at = 0 THEN NoMatch
        ELSE Match(TRUE,
                   SubSeq(responseText, open.at + Len(open.pat), close.at - 1),
                   close.at + Len(close.pat))

\* what a call of fetchFullLawText did: whether it called fetch, and how it
\* settled
FullTextOutcome(fetched, settled) ==
    [ fetched |-> fetched, status |-> settled.status, error |-> settled.error,
      value |-> settled.value ]

\* fetchFullLawText of part_000
FetchFullLawText(idNorma, response) ==
    IF idNorma = <<>> \/ idNorma = UNKNOWN_ID
    THEN FullTextOutcome(FALSE, Returned(<<>>))
    ELSE IF response.failed THEN FullTextOutcome(TRUE, Thrown(ERR_FETCH))
    ELSE IF ~response.ok THEN FullTextOutcome(TRUE, Thrown(ERR_FULLTEXT))
    ELSE LET responseText == response.xmlText
             content == FindValueByRegex(MatchContent(responseText))
         IN  IF content = Absent \/ ValueOf(content) = <<>>
             THEN LET fallbackContent == PlainText(responseText)
                  IN  IF Len(fallbackContent) > FULLTEXT_MIN
                      THEN FullTextOutcome(TRUE, Returned(fallbackContent))
                      ELSE FullTextOutcome(TRUE, Returned(<<>>))
             ELSE FullTextOutcome(TRUE, Returned(PlainText(ValueOf(content))))

\* ------------------------------- leyChileService (part_006): the document

\* an Element: its tag, its id and tipo attributes, and either a text or
\* child elements
Element(tag, id, tipo, text, children) ==
    [ tag |-> tag, id |-> id, tipo |-> tipo, text |-> text, children |-> children ]

Leaf(tag, text) == Element(tag, Absent, Absent, text, <<>>)
Parent(tag, id, children) == Element(tag, id, Absent, <<>>, children)

\* the Document of parseFromString; an ill-formed text gives a document
\* that holds a parsererror element
XmlDocument(documentElement) == [ documentElement |-> documentElement ]

ParserError == XmlDocument(Leaf(<<"p", "a", "r", "s", "e", "r", "e", "r", "r", "o", "r">>, <<"e", "r", "r", "o", "r", " ", "o", "n", " ", "l", "i", "n", "e", " ", "1">>))

RECURSIVE ConcatAll(_)
ConcatAll(seqs) == IF seqs = <<>> THEN <<>> ELSE Head(seqs) \o ConcatAll(Tail(seqs))

\* el.textContent
RECURSIVE TextContent(_)
TextContent(el) ==
    IF el.children = <<>> THEN el.text
    ELSE ConcatAll([i \in 1..Len(el.children) |-> TextContent(el.children[i])])

\* node.querySelectorAll('*'): the descendants in document order, each with
\* its nextElementSibling and its parentElement
RECURSIVE Descendants(_)
Descendants(node) ==
    ConcatAll([i \in 1..Len(node.children) |->
        << [ el |-> node.children[i],
             nextElementSibling |-> IF i < Len(node.children)
                                    THEN Some(node.children[i + 1]) ELSE Absent,
             parentElement |-> node ] >>
        \o Descendants(node.children[i]) ])

\* node.querySelector(tagName): Absent for null
QuerySelector(node, tagName) ==
    LET all == SelectSeq(Descendants(node), LAMBDA d : d.el.tag = tagName)
    IN  IF all = <<>> THEN Absent ELSE Some(Head(all).el)

\* node.querySelector('Identificador[tipo="Número Ley"]')
QueryNumeroLey(node) ==
    LET all == SelectSeq(Descendants(node),
                   LAMBDA d : /\ d.el.tag = <<"I", "d", "e", "n", "t", "i", "f", "i", "c", "a", "d", "o", "r">>
                              /\ d.el.tipo = Some(<<"N", "ú", "m", "e", "r", "o", " ", "L", "e", "y">>))
    IN  IF all = <<>> THEN Absent ELSE Some(Head(all).el)

\* node.querySelector('Metadatos > Norma > Titulo'), for a node that has no
\* Metadatos element above it
QueryMetadataTitle(node) ==
    LET metas == SelectSeq(Descendants(node), LAMBDA d : d.el.tag = <<"M", "e", "t", "a", "d", "a", "t", "o", "s">>)
        normas == ConcatAll([i \in 1..Len(metas) |->
                      SelectSeq(metas[i].el.children, LAMBDA c : c.tag = <<"N", "o", "r", "m", "a">>)])
        titles == ConcatAll([i \in 1..Len(normas) |->
                      SelectSeq(normas[i].children, LAMBDA c : c.tag = <<"T", "i", "t", "u", "l", "o">>)])
    IN  IF titles = <<>> THEN Absent ELSE Some(Head(titles))

\* `tag && tag.textContent`
HasText(found) == found # Absent /\ TextContent(ValueOf(found)) # <<>>

\* findId of part_006
FindIdDom(node) ==
    LET idNormaTag == QuerySelector(node, <<"I", "d", "N", "o", "r", "m", "a">>)
    IN  IF HasText(idNormaTag) THEN Trim(TextContent(ValueOf(idNormaTag)))
        ELSE IF node.id # Absent /\ ValueOf(node.id) # <<>> THEN ValueOf(node.id)
        ELSE UNKNOWN_ID

\* findLawNumber of part_006
FindLawNumberDom(node) ==
    LET numeroTag == QuerySelector(node, <<"N", "u", "m", "e", "r", "o">>)
        numeroLeyAttr == QueryNumeroLey(node)
    IN  IF HasText(numeroTag) THEN Some(Trim(TextContent(ValueOf(numeroTag))))
        ELSE IF HasText(numeroLeyAttr) THEN Some(Trim(TextContent(ValueOf(numeroLeyAttr))))
        ELSE Absent

\* findTitle of part_006
FindTitleDom(node) ==
    LET tituloNormaTag == QuerySelector(node, <<"T", "i", "t", "u", "l", "o", "N", "o", "r", "m", "a">>)
        metaTituloTag == QueryMetadataTitle(node)
    IN  IF HasText(tituloNormaTag) THEN Trim(TextContent(ValueOf(tituloNormaTag)))
        ELSE IF HasText(metaTituloTag) THEN Trim(TextContent(ValueOf(metaTituloTag)))
        ELSE NO_TITLE

\* tagNames[keyword]
TagNames(keyword) ==
    CASE keyword = "Publicación" -> << <<"F", "e", "c", "h", "a", "P", "u", "b", "l", "i", "c", "a", "c", "i", "o", "n">> >>
      [] keyword = "Vigencia|Inicio" -> << <<"I", "n", "i", "c", "i", "o", "V", "i", "g", "e", "n", "c", "i", "a">>, <<"F", "e", "c", "h", "a", "V", "i", "g", "e", "n", "c", "i", "a">> >>
      [] OTHER -> <<>>

\* the `for (const tagName of possibleTags)` of findDate: Absent when no
\* tag gave a date
RECURSIVE FindDateInTags(_, _)
FindDateInTags(node, possibleTags) ==
    IF possibleTags = <<>> THEN Absent
    ELSE LET tag == QuerySelector(node, Head(possibleTags))
         IN  IF HasText(tag) /\ MatchDate(Trim(TextContent(ValueOf(tag))), 1) # Absent
             THEN MatchDate(Trim(TextContent(ValueOf(tag))), 1)
             ELSE FindDateInTags(node, Tail(possibleTags))

\* new RegExp(keyword, 'i').test(text)
KeywordTest(keyword, text) ==
    LET alternatives ==
            CASE keyword = "Publicación" -> { <<"p", "u", "b", "l", "i", "c", "a", "c", "i", "ó", "n">> }
              [] keyword = "Vigencia|Inicio" -> { <<"v", "i", "g", "e", "n", "c", "i", "a">>, <<"i", "n", "i", "c", "i", "o">> }
              [] OTHER -> {}
    IN  \E alt \in alternatives : Includes(ToLowerCase(text), alt)

\* the body of `for (const el of allElements)`: the date found at one
\* element (in its text, its next sibling's, its parent's), Absent for none
DateNear(d, keyword) ==
    IF /\ d.el.children = <<>>
       /\ d.el.text # <<>>
       /\ KeywordTest(keyword, d.el.text)
    THEN IF MatchDate(d.el.text, 1) # Absent
         THEN MatchDate(d.el.text, 1)
         ELSE IF /\ d.nextElementSibling # Absent
                 /\ MatchDate(TextContent(ValueOf(d.nextElementSibling)), 1) # Absent
              THEN MatchDate(TextContent(ValueOf(d.nextElementSibling)), 1)
              ELSE MatchDate(TextContent(d.parentElement), 1)
    ELSE Absent

RECURSIVE FindDateNearKeyword(_, _)
FindDateNearKeyword(allElements, keyword) ==
    IF allElements = <<>> THEN Absent
    ELSE IF DateNear(Head(allElements), keyword) # Absent
         THEN DateNear(Head(allElements), keyword)
         ELSE FindDateNearKeyword(Tail(allElements), keyword)

\* findDate of part_006
FindDateDom(node, keyword) ==
    IF FindDateInTags(node, TagNames(keyword)) # Absent
    THEN ValueOf(FindDateInTags(node, TagNames(keyword)))
    ELSE IF FindDateNearKeyword(Descendants(node), keyword) # Absent
         THEN ValueOf(FindDateNearKeyword(Descendants(node), keyword))
         ELSE NOT_REPORTED

\* ------------------------ leyChileService (part_006): fetchLawCandidates

\* xmlDoc.getElementsByTagName(tag)
GetElementsByTagName(xmlDoc, tag) ==
    LET root == xmlDoc.documentElement
        below == SelectSeq(Descendants(root), LAMBDA d : d.el.tag = tag)
    IN  (IF root.tag = tag THEN <<root>> ELSE <<>>)
        \o [i \in 1..Len(below) |-> below[i].el]

\* Array.from(items).map(node => ...)
CandidateOfNode(node) ==
    Candidate(FindIdDom(node), FindTitleDom(node), FindDateDom(node, "Publicación"),
              FindDateDom(node, "Vigencia|Inicio"), FindLawNumberDom(node))

\* fetchLawCandidates of part_006
FetchLawCandidatesDom(response) ==
    IF response.failed THEN Thrown(ERR_CONNECT)
    ELSE IF ~response.ok THEN Thrown(ERR_CANDIDATES)
    ELSE LET xmlDoc == response.xmlDoc
             rootNode == xmlDoc.documentElement
             normas == GetElementsByTagName(xmlDoc, <<"N", "o", "r", "m", "a">>)
             items == IF Len(normas) > 0 THEN normas ELSE rootNode.children
         IN  IF GetElementsByTagName(xmlDoc, <<"p", "a", "r", "s", "e", "r", "e", "r", "r", "o", "r">>) # <<>>
             THEN Thrown(ERR_NOT_XML)
             ELSE IF /\ rootNode.children = <<>> /\ rootNode.text = <<>>
                     /\ rootNode.tag = <<"N", "o", "r", "m", "a", "s">>
                  THEN Returned(<<>>)
                  ELSE Returned([i \in 1..Len(items) |-> CandidateOfNode(items[i])])

\* ------------------------------------- leyChileService: texts and documents

\* the text of a character datum as the backend writes it
RECURSIVE EscapeText(_)
EscapeText(s) ==
    IF s = <<>> THEN <<>>
    ELSE (CASE Head(s) = "&" -> <<"&", "a", "m", "p", ";">>
            [] Head(s) = "<" -> <<"&", "l", "t", ";">>
            [] OTHER -> <<Head(s)>>) \o EscapeText(Tail(s))

\* the XML text of an element
RECURSIVE Serialize(_)
Serialize(el) ==
    <<"<">> \o el.tag
    \o (IF el.id # Absent THEN <<" ", "i", "d", "=", "\"">> \o ValueOf(el.id) \o <<"\"">> ELSE <<>>)
    \o (IF el.tipo # Absent THEN <<" ", "t", "i", "p", "o", "=", "\"">> \o ValueOf(el.tipo) \o <<"\"">> ELSE <<>>)
    \o <<">">>
    \o (IF el.children = <<>> THEN EscapeText(el.text)
        ELSE ConcatAll([i \in 1..Len(el.children) |-> Serialize(el.children[i])]))
    \o <<"<", "/">> \o el.tag \o <<">">>

\* ------------------------------------------- leyChileService: the inputs

\* tag texts as the backend can write them
RawTexts ==
    { <<"L", "e", "y", " ", "&", "a", "m", "p", ";", " ", "R", "e", "g", "l", "a", "m", "e", "n", "t", "o">>,
      <<" ", " ", "L", "e", "y", " ", "G", "e", "n", "e", "r", "a", "l", " ", "d", "e", " ", "B", "a", "n", "c", "o", "s", " ", " ">>,
      <<"&", "l", "t", ";", "b", "&", "g", "t", ";", "L", "e", "y", "&", "l", "t", ";", "/", "b", "&", "g", "t", ";">>,
      <<"&", "q", "u", "o", "t", ";", "L", "e", "y", "&", "q", "u", "o", "t", ";", " ", "&", "#", "3", "9", ";", "c", "o", "r", "t", "a", "&", "#", "3", "9", ";", "&", "n", "b", "s", "p", ";", "N", " ", "1">>,
      <<"a", " ", "&", "a", "m", "p", ";", "l", "t", ";", " ", "b">>,
      <<"A", "T", "&", "a", "m", "p", ";", "a", "m", "p", ";", "T">>,
      <<"R", "&", "a", "m", "p", ";", "D", " ", "&", "a", "m", "p", ";", "n", "b", "s", "p", ";", " ", "I">>,
      <<" ">>,
      <<>> }

\* date tag contents as the backend can write them
DateContents ==
    { <<" ", " ", "1", "2", "-", "M", "A", "R", "-", "2", "0", "2", "0", " ", "e", "x", "t", "r", "a", " ", "t", "e", "x", "t">>,
      <<"1", "2", "-", "m", "a", "r", "-", "2", "0", "2", "0">>,
      <<"P", "u", "b", "l", "i", "c", "a", "d", "a", " ", "e", "l", " ", "1", "1", "2", "-", "M", "A", "R", "-", "2", "0", "2", "0", "5">>,
      <<"1", "2", "-", "3", "4", "5", "-", "2", "0", "2", "0">>,
      <<"1", "2", "-", "M", "_", "R", "-", "2", "0", "2", "0">>,
      <<"1", "2", "-", "M", "A", "R", "-", "2", "0">>,
      <<"1", "-", "M", "A", "R", "-", "2", "0", "2", "0">>,
      <<"1", "2", "/", "0", "3", "/", "2", "0", "2", "0">>,
      <<"s", "i", "n", " ", "f", "e", "c", "h", "a">>,
      <<>> }

\* the choices for a tag of a block: absent, or present with a content
Optional(tag, contents) == {<<>>} \cup { <<Leaf(tag, c)>> : c \in contents }

\* other leaves of a block: none, a note that names a date, a label
\* followed by a value
OtherText ==
    { <<>>,
      << Leaf(<<"G", "l", "o", "s", "a">>, <<"P", "u", "b", "l", "i", "c", "a", "c", "i", "ó", "n", " ", "0", "1", "-", "E", "N", "E", "-", "2", "0", "0", "1">>) >>,
      << Leaf(<<"E", "t", "i", "q", "u", "e", "t", "a">>, <<"I", "n", "i", "c", "i", "o", " ", "d", "e", " ", "v", "i", "g", "e", "n", "c", "i", "a">>), Leaf(<<"V", "a", "l", "o", "r">>, <<"0", "2", "-", "F", "E", "B", "-", "2", "0", "0", "2">>) >> }

\* <Norma> blocks for findDate: one date tag with each content, and every
\* combination of the three date tags with other text
DateNodes ==
    { Parent(<<"N", "o", "r", "m", "a">>, Absent, pub) : pub \in Optional(<<"F", "e", "c", "h", "a", "P", "u", "b", "l", "i", "c", "a", "c", "i", "o", "n">>, DateContents) }
    \cup
    { Parent(<<"N", "o", "r", "m", "a">>, Absent, pub \o fecha \o inicio \o other) :
          pub \in Optional(<<"F", "e", "c", "h", "a", "P", "u", "b", "l", "i", "c", "a", "c", "i", "o", "n">>, {<<"s", "i", "n", " ", "f", "e", "c", "h", "a">>, <<"0", "3", "-", "M", "A", "R", "-", "2", "0", "0", "3">>}),
          fecha \in Optional(<<"F", "e", "c", "h", "a", "V", "i", "g", "e", "n", "c", "i", "a">>, {<<"s", "i", "n", " ", "f", "e", "c", "h", "a">>, <<"0", "4", "-", "A", "B", "R", "-", "2", "0", "0", "4">>}),
          inicio \in Optional(<<"I", "n", "i", "c", "i", "o", "V", "i", "g", "e", "n", "c", "i", "a">>, {<<"s", "i", "n", " ", "f", "e", "c", "h", "a">>, <<"0", "5", "-", "M", "A", "Y", "-", "2", "0", "0", "5">>}),
          other \in OtherText }

DateKeywords == {"Publicación", "Vigencia|Inicio"}

\* <Norma> blocks of a listing
NormaA ==
    Parent(<<"N", "o", "r", "m", "a">>, Absent,
           << Leaf(<<"I", "d", "N", "o", "r", "m", "a">>, <<" ", "1", "0", "0", "1", " ">>), Leaf(<<"T", "i", "t", "u", "l", "o", "N", "o", "r", "m", "a">>, <<"L", "e", "y", " ", "&", " ", "R", "e", "g", "l", "a", "m", "e", "n", "t", "o">>),
              Leaf(<<"F", "e", "c", "h", "a", "P", "u", "b", "l", "i", "c", "a", "c", "i", "o", "n">>, <<"1", "2", "-", "M", "A", "R", "-", "2", "0", "2", "0">>), Leaf(<<"N", "u", "m", "e", "r", "o">>, <<"2", "0", "0", "0", "0">>) >>)
NormaB ==
    Parent(<<"N", "o", "r", "m", "a">>, Some(<<"1", "0", "0", "2">>),
           << Leaf(<<"F", "e", "c", "h", "a", "V", "i", "g", "e", "n", "c", "i", "a">>, <<"0", "4", "-", "A", "B", "R", "-", "2", "0", "0", "4">>),
              Element(<<"I", "d", "e", "n", "t", "i", "f", "i", "c", "a", "d", "o", "r">>, Absent, Some(<<"N", "ú", "m", "e", "r", "o", " ", "L", "e", "y">>), <<"1", "9", "0", "0", "0">>, <<>>) >>)
NormaC == Parent(<<"N", "o", "r", "m", "a">>, Absent, << Leaf(<<"G", "l", "o", "s", "a">>, <<"s", "i", "n", " ", "d", "a", "t", "o", "s">>) >>)

\* the roots of the well-formed responses: listings with and without
\* blocks, and documents that are no listing
ListingRoots ==
    { Parent(<<"N", "o", "r", "m", "a", "s">>, Absent, norms) :
          norms \in { <<>>, <<NormaA>>, <<NormaA, NormaB>>, <<NormaC, NormaB, NormaA>> } }
    \cup
    { Parent(<<"L", "i", "s", "t", "a", "d", "o">>, Absent, <<>>),
      Parent(<<"L", "i", "s", "t", "a", "d", "o">>, Absent, << Leaf(<<"T", "o", "t", "a", "l">>, <<"0">>) >>),
      Parent(<<"R", "e", "s", "p", "u", "e", "s", "t", "a">>, Absent, << Leaf(<<"M", "e", "n", "s", "a", "j", "e">>, <<"s", "i", "n", " ", "r", "e", "s", "u", "l", "t", "a", "d", "o", "s">>) >>),
      Leaf(<<"h", "t", "m", "l">>, <<>>),
      Leaf(<<"e", "r", "r", "o", "r">>, <<"f", "a", "l", "l", "o", " ", "i", "n", "t", "e", "r", "n", "o">>),
      Parent(<<"R", "e", "s", "p", "u", "e", "s", "t", "a">>, Absent, << Leaf(<<"E", "r", "r", "o", "r">>, <<"f", "a", "l", "l", "o", " ", "i", "n", "t", "e", "r", "n", "o">>) >>) }

\* a text of n characters c
Repeat(c, n) == [i \in 1..n |-> c]

\* texts that are not XML
IllFormedTexts ==
    { <<>>,
      <<" ", " ", " ">>,
      <<"S", "i", "n", " ", "r", "e", "s", "u", "l", "t", "a", "d", "o", "s">>,
      <<"E", "r", "r", "o", "r", " ", "i", "n", "t", "e", "r", "n", "o", " ", "d", "e", "l", " ", "s", "e", "r", "v", "i", "d", "o", "r">>,
      <<"I", "n", "t", "e", "r", "n", "a", "l", " ", "E", "R", "R", "O", "R">>,
      <<"E", "r", "r", "o", "r", ":", " ">> \o Repeat("x", SHORT_PAYLOAD),
      <<"<", "R", "e", "s", "p", "u", "e", "s", "t", "a", ">", "s", "i", "n", " ", "c", "i", "e", "r", "r", "e">>,
      <<"<", "N", "o", "r", "m", "a", "s", ">", "<", "N", "o", "r", "m", "a", ">", "<", "I", "d", "N", "o", "r", "m", "a", ">", "1", "0", "0", "1", "<", "/", "I", "d", "N", "o", "r", "m", "a", ">">> }

\* what the search backend can answer with
BackendResponses ==
    { BackendResponse(TRUE, FALSE, <<>>, ParserError),
      BackendResponse(FALSE, FALSE, <<"E", "r", "r", "o", "r", " ", "5", "0", "0">>, ParserError) }
    \cup { BackendResponse(FALSE, TRUE, Serialize(root), XmlDocument(root)) :
               root \in ListingRoots }
    \cup { BackendResponse(FALSE, TRUE, text, ParserError) : text \in IllFormedTexts }

\* the roots of the full-text responses: the content tag under either name,
\* with markup inside, with a '<' in its text, blank; and documents without
\* it, short and long
FullTextRoots ==
    { Parent(<<"N", "o", "r", "m", "a">>, Absent,
             << Leaf(<<"T", "i", "t", "u", "l", "o">>, <<"L", "e", "y">>),
                Parent(<<"T", "e", "x", "t", "o">>, Absent, << Leaf(<<"p">>, <<"A", "r", "t", "í", "c", "u", "l", "o", " ", "1", ".">>), Leaf(<<"p">>, <<"A", "r", "t", "í", "c", "u", "l", "o", " ", " ", "2", ".">>) >>) >>),
      Parent(<<"N", "o", "r", "m", "a">>, Absent, << Leaf(<<"C", "o", "n", "t", "e", "n", "i", "d", "o">>, <<" ", " ", "A", "r", "t", "í", "c", "u", "l", "o", " ", "ú", "n", "i", "c", "o", ".", " ", " ">>) >>),
      Parent(<<"N", "o", "r", "m", "a">>, Absent, << Leaf(<<"T", "e", "x", "t", "o">>, <<"r", "e", "n", "t", "a", " ", "<", " ", "1", "0", " ", "U", "T", "M", " ", "a", "n", "u", "a", "l", "e", "s">>) >>),
      Parent(<<"N", "o", "r", "m", "a">>, Absent, << Leaf(<<"T", "i", "t", "u", "l", "o">>, <<"L", "e", "y">>), Leaf(<<"T", "e", "x", "t", "o">>, <<>>) >>),
      Parent(<<"N", "o", "r", "m", "a">>, Absent, << Leaf(<<"T", "i", "t", "u", "l", "o">>, Repeat("x", FULLTEXT_MIN + 1)), Leaf(<<"T", "e", "x", "t", "o">>, <<>>) >>),
      Parent(<<"N", "o", "r", "m", "a">>, Absent, << Leaf(<<"T", "i", "t", "u", "l", "o">>, <<"L", "e", "y", " ", "c", "o", "r", "t", "a">>) >>),
      Parent(<<"N", "o", "r", "m", "a">>, Absent, << Leaf(<<"C", "u", "e", "r", "p", "o">>, Repeat("x", FULLTEXT_MIN)) >>),
      Parent(<<"N", "o", "r", "m", "a">>, Absent, << Leaf(<<"C", "u", "e", "r", "p", "o">>, Repeat("x", FULLTEXT_MIN + 1)) >>),
      Parent(<<"N", "o", "r", "m", "a">>, Absent, << Leaf(<<"T", "i", "t", "u", "l", "o">>, <<"L", "e", "y">>), Leaf(<<"C", "u", "e", "r", "p", "o">>, Repeat("x", FULLTEXT_MIN) \o <<" ", "y", " ", " ", "z">>) >>),
      Leaf(<<"e", "r", "r", "o", "r">>, <<"n", "o", " ", "e", "x", "i", "s", "t", "e">>) }

\* what the full-text backend can answer with
FullTextResponses ==
    { BackendResponse(TRUE, FALSE, <<>>, ParserError),
      BackendResponse(FALSE, FALSE, <<"E", "r", "r", "o", "r", " ", "5", "0", "0">>, ParserError) }
    \cup { BackendResponse(FALSE, TRUE, Serialize(root), XmlDocument(root)) :
               root \in FullTextRoots }

\* the identifiers fetchFullLawText is called with
NormaIds == { <<>>, UNKNOWN_ID, <<"1", "0", "0", "1">> }

\* ------------------------------------------------------------- the steps

\* a service function is applied once, on its own
Idle == pc = "idle" /\ serviceCall = NoServiceCall

\* one call of analyzeAndPlanNextStep
ApplyAnalyzeAndPlanNextStep(upstream, dossierArg) ==
    /\ Idle
    /\ serviceCall' = ServiceCall("analyzeAndPlanNextStep", "geminiService.ts",
                          [ upstream |-> upstream, dossier |-> dossierArg ],
                          AnalyzeAndPlanNextStep(upstream, dossierArg))
    /\ UNCHANGED app

\* one call of extractRelevantSnippets
ApplyExtractRelevantSnippets(upstream) ==
    /\ Idle
    /\ serviceCall' = ServiceCall("extractRelevantSnippets", "geminiService.ts",
                          [ upstream |-> upstream ],
                          ExtractRelevantSnippets(upstream))
    /\ UNCHANGED app

\* one call of findValueByRegex on <TituloNorma>raw</TituloNorma>
ApplyFindValueByRegex(raw) ==
    /\ Idle
    /\ serviceCall' = ServiceCall("findValueByRegex", "part_000", [ raw |-> raw ],
                          FindValueByRegex(MatchBetween(
                              <<"<", "T", "i", "t", "u", "l", "o", "N", "o", "r", "m", "a", ">">> \o raw \o <<"<", "/", "T", "i", "t", "u", "l", "o", "N", "o", "r", "m", "a", ">">>,
                              <<"<", "T", "i", "t", "u", "l", "o", "N", "o", "r", "m", "a", ">">>, <<"<", "/", "T", "i", "t", "u", "l", "o", "N", "o", "r", "m", "a", ">">>)))
    /\ UNCHANGED app

\* one call of findDate of part_000 on the text of a block
ApplyFindDate(node, keyword) ==
    /\ Idle
    /\ serviceCall' = ServiceCall("findDate", "part_000",
                          [ node |-> node, keyword |-> keyword ],
                          FindDate(Serialize(node), keyword))
    /\ UNCHANGED app

\* one call of findDate of part_006 on the element of a block
ApplyFindDateDom(node, keyword) ==
    /\ Idle
    /\ serviceCall' = ServiceCall("findDate", "part_006",
                          [ node |-> node, keyword |-> keyword ],
                          FindDateDom(node, keyword))
    /\ UNCHANGED app

\* one call of fetchLawCandidates of part_000
ApplyFetchLawCandidates(response) ==
    /\ Idle
    /\ serviceCall' = ServiceCall("fetchLawCandidates", "part_000", response,
                          FetchLawCandidates(response))
    /\ UNCHANGED app

\* one call of fetchLawCandidates of part_006
ApplyFetchLawCandidatesDom(response) ==
    /\ Idle
    /\ serviceCall' = ServiceCall("fetchLawCandidates", "part_006", response,
                          FetchLawCandidatesDom(response))
    /\ UNCHANGED app

\* one call of fetchFullLawText of part_000
ApplyFetchFullLawText(idNorma, response) ==
    /\ Idle
    /\ serviceCall' = ServiceCall("fetchFullLawText", "part_000",
                          [ idNorma |-> idNorma, response |-> response ],
                          FetchFullLawText(idNorma, response))
    /\ UNCHANGED app

NextServices ==
    \/ \E upstream \in PlanUpstreams, dossierArg \in DossierArgs :
           ApplyAnalyzeAndPlanNextStep(upstream, dossierArg)
    \/ \E upstream \in SnippetUpstreams : ApplyExtractRelevantSnippets(upstream)
    \/ \E raw \in RawTexts : ApplyFindValueByRegex(raw)
    \/ \E node \in DateNodes, keyword \in DateKeywords : ApplyFindDate(node, keyword)
    \/ \E node \in DateNodes, keyword \in DateKeywords : ApplyFindDateDom(node, keyword)
    \/ \E response \in BackendResponses : ApplyFetchLawCandidates(response)
    \/ \E response \in BackendResponses : ApplyFetchLawCandidatesDom(response)
    \/ \E idNorma \in NormaIds, response \in FullTextResponses :
           ApplyFetchFullLawText(idNorma, response)

SpecServices == InitLoop /\ [][NextServices]_vars

\* ================================================================ properties

CallsOf(fn) == SelectSeq(calls, LAMBDA c : c.fn = fn)

\* the last user action of the session
LastInput == Last(inputs)

\* the current turn answers a turn that neither awaited a confirmation nor
\* asked for a clarification
FreshTurn ==
    /\ inputs # <<>>
    /\ LastInput.kind = "message"
    /\ ~LastInput.afterAwaiting
    /\ ~LastInput.afterClarification

\* C1: every request for candidate listings searches the queries of a proposal
\* that was shown to the user and that the user has affirmed: a listing is never
\* fetched for queries the user has not confirmed.
C1_ConfirmationGating ==
    \A i \in 1..Len(calls) :
        calls[i].fn = "fetchLawCandidates"
            => calls[i].src >= 1 /\ calls[i].src <= affirmedUpTo

\* C2: once clarificationAttempt exceeds 1 no turn flagged as a clarification
\* request is put in front of the user.
C2_AntiLoop ==
    ~(clarificationAttempt > 1 /\ Last(chatMessages).isClarificationRequest)

\* C3: the dossier never holds the sentinel identifier "Desconocido" as a key,
\* and never holds two entries under one identifier.
C3_DossierKeys ==
    /\ \A i \in 1..Len(dossier) : dossier[i].id # SENTINEL_ID
    /\ \A i, j \in 1..Len(dossier) : dossier[i].id = dossier[j].id => i = j

\* a listing that holds the sentinel, a repeated identifier and a new one was
\* processed (only that listing titles law A "t2") and left two entries
C3_Witness ==
    /\ Len(dossier) = 2
    /\ \E i \in 1..Len(dossier) : dossier[i].id = "A" /\ dossier[i].title = "t2"

\* the results of the in-loop oracle calls of the current search
LoopPlanResults ==
    LET made == SelectSeq(calls, LAMBDA c : /\ c.fn = "analyzeAndPlanNextStep"
                                            /\ c.site = "executeSearchLoop"
                                            /\ c.attempt = 0)
    IN  [i \in 1..Len(made) |-> made[i].result]

\* C4: a search runs at most MAX_SEARCH_LOOPS (2) rounds: when the oracle has
\* asked for more search in each of them the search is over, no third round is
\* started, and the turn ends with the error
\* "No pude encontrar una respuesta satisfactoria despues de multiples busquedas."
C4_LoopBudget ==
    /\ Len(LoopPlanResults) <= MAX_SEARCH_LOOPS
    /\ loops < MAX_SEARCH_LOOPS
    /\ ( /\ Len(LoopPlanResults) = MAX_SEARCH_LOOPS
         /\ \A i \in 1..MAX_SEARCH_LOOPS : LoopPlanResults[i] = "SEARCH_MORE" )
       => /\ pc = "idle"
          /\ ~isLoading
          /\ error = ERR_BUDGET
          /\ Last(chatMessages) = ErrorTurn(ERR_BUDGET)
          /\ Last(calls).fn = "analyzeAndPlanNextStep"

\* both rounds of one search ended in SEARCH_MORE
C4_Witness ==
    /\ Len(LoopPlanResults) = MAX_SEARCH_LOOPS
    /\ \A i \in 1..MAX_SEARCH_LOOPS : LoopPlanResults[i] = "SEARCH_MORE"
    /\ error = ERR_BUDGET

\* a step in which a search call, or the oracle call of a search, throws
SearchThrows ==
    /\ Len(calls') = Len(calls) + 1
    /\ Last(calls').result = "throw"
    /\ Last(calls').site \in {"executeSearchLoop", "executeSearch"}

\* C5: when fetchLawCandidates, fetchFullLawText or the planning oracle throws
\* during a confirmed search, the turn is aborted: a model turn with the error
\* text is appended, the last error is set, the conversation is idle and takes
\* the next user message, and the dossier is as it was before the failure.
C5_SearchFailureSurfaced ==
    [][ SearchThrows =>
            /\ pc' = "idle"
            /\ ~isLoading'
            /\ error' # Null
            /\ Last(chatMessages') = ErrorTurn(error')
            /\ dossier' = dossier ]_vars

\* C6: while the dossier is empty no answer turn (the turn made from a RESPOND
\* plan, the only one that carries references) is in front of the user.
C6_EmptyDossierPhase ==
    dossier = <<>> => Last(chatMessages).references = Absent

\* the message begins, surrounding whitespace aside and in any letter case,
\* with one of the affirmation tokens
Affirms(text) ==
    \E t \in AffirmationTokens : StartsWith(ToLowerCase(Trim(text)), t)

\* a step in which the user sends a typed message
UserMessageStep ==
    /\ Len(inputs') = Len(inputs) + 1
    /\ Last(inputs').kind = "message"

\* a step that starts a search
SearchStarts == pc = "idle" /\ pc' \in {"candidates", "loopPlan"}

\* the queries of the pending plan
PendingQueries ==
    IF revision = "loop" THEN ValueOf(proposedPlan)
    ELSE <<ValueOf(proposedPlan).searchQuery>>

\* C7: a user message starts a search exactly when the previous turn awaits
\* confirmation, a pending plan exists and the message begins with an
\* affirmation token; the search then runs the queries of the pending plan.
C7_ConfirmationDetection ==
    [][ UserMessageStep =>
            /\ SearchStarts <=> ( /\ Last(chatMessages).isAwaitingConfirmation
                                  /\ proposedPlan # Absent
                                  /\ Affirms(Last(inputs').text) )
            /\ SearchStarts => searchQueries' = PendingQueries ]_vars

\* the current turn is the user's feedback on a proposal
FeedbackTurn ==
    /\ inputs # <<>>
    /\ LastInput.kind = "message"
    /\ LastInput.afterAwaiting
    /\ ~Affirms(LastInput.text)

\* C8: a message that answers a proposal without affirming it is plan feedback:
\* the oracle is invoked with the whole turn history and the new message, no
\* candidate listing is fetched, and the dossier and clarificationAttempt stay
\* as they were.
C8_PlanFeedback ==
    [][ /\ (UserMessageStep /\ FeedbackTurn') =>
              /\ pc' = "plan"
              /\ newMessages' = Append(chatMessages, UserTurn(LastInput'.text))
              /\ dossier' = dossier
              /\ clarificationAttempt' = clarificationAttempt
        /\ (FeedbackTurn /\ pc = "plan") =>
              /\ Last(calls').fn = "analyzeAndPlanNextStep"
              /\ Last(calls').messages = newMessages
              /\ dossier' = dossier
              /\ clarificationAttempt' = clarificationAttempt
        /\ FeedbackTurn' => CallsOf("fetchLawCandidates")' = <<>> ]_vars

\* the oracle calls made by handleSendMessage in the current turn
SendPlanCalls ==
    SelectSeq(calls, LAMBDA c : /\ c.fn = "analyzeAndPlanNextStep"
                                /\ c.site = "handleSendMessage")

\* C9: a message that answers neither a proposal nor a clarification request
\* is a fresh query: before the oracle is invoked the dossier is empty,
\* clarificationAttempt is 0 and no plan is pending, and the oracle call of
\* that turn is given an empty dossier and attempt 0.
C9_FreshQueryReset ==
    FreshTurn =>
        /\ pc = "plan" => /\ dossier = <<>>
                          /\ clarificationAttempt = 0
                          /\ proposedPlan = Absent
        /\ \A i \in 1..Len(SendPlanCalls) :
              /\ SendPlanCalls[i].dossierArg = <<>>
              /\ SendPlanCalls[i].attempt = 0

\* a fresh query asked after an answer that cited a law of the dossier of that
\* time: the oracle is called with nothing left of it
C9_Witness ==
    /\ FreshTurn
    /\ Len(SendPlanCalls) = 1
    /\ \E i \in 1..Len(chatMessages) :
          /\ chatMessages[i].references # Absent
          /\ \E k \in 1..Len(ValueOf(chatMessages[i].references)) :
                ValueOf(chatMessages[i].references)[k].sourceQueries # <<>>

\* a step in which the user answers a clarification request
ClarificationAnswerStep ==
    UserMessageStep /\ Last(chatMessages).isClarificationRequest

\* C10: the answer to a clarification request adds exactly 1 to
\* clarificationAttempt and leaves the dossier alone before the oracle is
\* invoked, the oracle is given that count, and the count goes down only when
\* a fresh query resets it to 0.
C10_ClarificationAnswer ==
    [][ /\ ClarificationAnswerStep =>
              /\ clarificationAttempt' = clarificationAttempt + 1
              /\ dossier' = dossier
              /\ pc' = "plan"
        /\ (pc = "plan" /\ LastInput.afterClarification) =>
              /\ Last(calls').attempt = clarificationAttempt
              /\ Last(calls').dossierArg = dossier
        /\ clarificationAttempt' < clarificationAttempt =>
              /\ FreshTurn'
              /\ UserMessageStep
              /\ clarificationAttempt' = 0 ]_vars

\* the oracle has been called for the second clarification answer in a row
C10_Witness ==
    /\ inputs # <<>>
    /\ LastInput.afterClarification
    /\ clarificationAttempt = 2
    /\ Len(SendPlanCalls) = 1
    /\ SendPlanCalls[1].attempt = 2

\* the pipeline is inside a confirmed search
Searching ==
    pc \in {"candidates", "fulltext", "snippets", "loopPlan", "nextPlan", "finalPlan"}

\* C11: once a confirmation is accepted and the search has started, no plan is
\* pending: pendingPlan stays null for as long as the search runs.
C11_PendingPlanCleared ==
    Searching => proposedPlan = Absent

\* a step in which handleSendMessage's oracle call resolves and handleAiPlan runs
HandleAiPlanStep ==
    /\ pc = "plan"
    /\ Len(calls') = Len(calls) + 1
    /\ Last(calls').result # "throw"

\* the turns a step appends to the history
AppendedTurns ==
    IF Len(chatMessages') > Len(chatMessages)
    THEN SubSeq(chatMessages', Len(chatMessages) + 1, Len(chatMessages'))
    ELSE <<>>

\* what the claim asks of handleAiPlan for the plan p the oracle returned
ResolvedAsStated(p) ==
    LET turn == Last(chatMessages')
    IN  /\ chatMessages' = Append(chatMessages, turn)
        /\ turn.role = "model"
        /\ ~turn.isLoading
        /\ CASE p.plan = "CLARIFY" ->
                  /\ turn.content = <<p.clarificationQuestion>>
                  /\ turn.isClarificationRequest /\ ~turn.isAwaitingConfirmation
                  /\ turn.references = Absent
                  /\ proposedPlan' = proposedPlan
             [] p.plan \in {"PROPOSE_PLAN", "SEARCH_MORE"} ->
                  /\ turn.isAwaitingConfirmation /\ ~turn.isClarificationRequest
                  /\ turn.references = Absent
                  /\ proposedPlan' = Some(p.newSearchQueries)
                  /\ pc' = "idle"
                  /\ CallsOf("fetchLawCandidates")' = <<>>
             [] p.plan = "RESPOND" ->
                  /\ turn.content = <<p.answer>>
                  /\ turn.references = Some(ParsedPlan(p, dossier).references)
                  /\ ~turn.isAwaitingConfirmation /\ ~turn.isClarificationRequest
                  /\ proposedPlan' = proposedPlan

\* C12: handleAiPlan appends exactly one model turn per plan: CLARIFY the
\* question, flagged as a clarification request, with pendingPlan untouched;
\* PROPOSE_PLAN and SEARCH_MORE a turn flagged as awaiting confirmation, with
\* pendingPlan set to the plan's queries and no search started; RESPOND the
\* answer with its references and no flag.  Only turns made from a RESPOND
\* plan carry references.
C12_PlanResolution ==
    [][ /\ HandleAiPlanStep =>
              \E p \in OraclePlans :
                  p.plan = Last(calls').result /\ ResolvedAsStated(p)
        /\ \A i \in 1..Len(AppendedTurns) :
              AppendedTurns[i].references # Absent =>
                  /\ Len(calls') = Len(calls) + 1
                  /\ Last(calls').fn = "analyzeAndPlanNextStep"
                  /\ Last(calls').result = "RESPOND" ]_vars

\* handleAiPlan has turned a SEARCH_MORE into a stored proposal
C12_Witness ==
    /\ pc = "idle"
    /\ calls # <<>>
    /\ Last(calls).site = "handleSendMessage"
    /\ Last(calls).result = "SEARCH_MORE"
    /\ Last(chatMessages).isAwaitingConfirmation
    /\ proposedPlan = Some(<<QueryC>>)

\* a step in which the oracle, called after a search round, proposes or asks
PostSearchPlanStep ==
    /\ Searching
    /\ Len(calls') = Len(calls) + 1
    /\ Last(calls').fn = "analyzeAndPlanNextStep"
    /\ Last(calls').result \in {"PROPOSE_PLAN", "CLARIFY"}

\* the plans the oracle of the running revision can return
PlansOfRevision == IF revision = "loop" THEN OraclePlans ELSE OraclePlansSingle

\* pendingPlan once the proposal p is stored
StoredProposal(p) == IF revision = "loop" THEN Some(p.newSearchQueries) ELSE Some(p)

\* C13: a PROPOSE_PLAN or CLARIFY that the oracle returns after a completed
\* search round is resolved like any other plan: the proposal is stored as
\* pendingPlan and surfaced awaiting confirmation, the clarification is
\* surfaced as a clarification request, and the turn does not end in an error.
C13_PostSearchResolution ==
    [][ PostSearchPlanStep =>
            \E p \in PlansOfRevision :
                /\ p.plan = Last(calls').result
                /\ pc' = "idle"
                /\ error' = Null
                /\ Len(chatMessages') = Len(chatMessages) + 1
                /\ IF p.plan = "PROPOSE_PLAN"
                   THEN /\ Last(chatMessages').isAwaitingConfirmation
                        /\ proposedPlan' = StoredProposal(p)
                   ELSE /\ Last(chatMessages').isClarificationRequest
                        /\ proposedPlan' = proposedPlan ]_vars

\* a step in which the last listing of a round resolves and leaves the round
\* nothing to process although the dossier is empty: with an empty dossier
\* every identified candidate is new, so the search returned no candidates
NoCandidatesStep ==
    /\ pc = "candidates"
    /\ pc' \in {"loopPlan", "nextPlan", "finalPlan"}
    /\ dossier = <<>>

\* C14: when a confirmed search returns no candidates the controller appends a
\* plain model turn saying that nothing was found and the strategy will be
\* reformulated, raises no error, and goes on to ask the planning oracle.
C14_ZeroCandidates ==
    [][ NoCandidatesStep =>
            /\ Len(AppendedTurns) = 1
            /\ AppendedTurns[1].role = "model"
            /\ ~AppendedTurns[1].isLoading
            /\ Head(AppendedTurns[1].content) = NO_RESULTS
            /\ error' = Null ]_vars

\* a dossier entry without the list of queries that surfaced it
EntryContent(entry) == [entry EXCEPT !.sourceQueries = <<>>]

\* C15: putting into the dossier is idempotent on content: an identifier that
\* is in the dossier keeps its stored metadata and snippets whatever later
\* searches return for it, and never gets a second entry.
C15_PutIdempotent ==
    [][ \A id \in MapKeys(dossier) \cap MapKeys(dossier') :
            /\ EntryContent(MapGet(dossier', id)) = EntryContent(MapGet(dossier, id))
            /\ Cardinality({i \in 1..Len(dossier') : dossier'[i].id = id}) = 1 ]_vars

\* law A, stored with the title of the short listing, is still so after the
\* follow-up query returned the long listing: that listing surfaced law B and
\* holds law A under another title
C15_Witness ==
    /\ MapHas(dossier, "A") /\ MapHas(dossier, "B")
    /\ MapGet(dossier, "A").title = "t1"
    /\ MapGet(dossier, "B").sourceQueries = <<QueryC>>

\* every entry of the map `before` that is still in `after` has kept all the
\* queries it had
QueriesKept(before, after) ==
    \A id \in MapKeys(before) \cap MapKeys(after) :
        SeqToSet(MapGet(before, id).sourceQueries)
            \subseteq SeqToSet(MapGet(after, id).sourceQueries)

\* C16: sourceQueries is a growing union: a query that surfaces an identifier
\* another query has surfaced adds itself to the queries recorded for it, so
\* the queries recorded for an identifier, in the round's candidate map and in
\* the dossier, never lose an element between resets.
C16_SourceQueriesUnion ==
    [][ /\ QueriesKept(uniqueCandidates, uniqueCandidates')
        /\ QueriesKept(dossier, dossier')
        /\ \A id \in MapKeys(uniqueCandidates) \cap MapKeys(dossier') :
              SeqToSet(MapGet(uniqueCandidates, id).sourceQueries)
                  \subseteq SeqToSet(MapGet(dossier', id).sourceQueries) ]_vars

\* a step in which a full-text fetch or a snippet extraction for a document
\* comes back
DocumentCallStep ==
    /\ Len(calls') = Len(calls) + 1
    /\ Last(calls').fn \in {"fetchFullLawText", "extractRelevantSnippets"}

DocumentCallsForA ==
    SelectSeq(calls, LAMBDA c : /\ c.fn \in {"fetchFullLawText", "extractRelevantSnippets"}
                                /\ c.id = "A")

AwaitingPostSearchPlan == pc \in {"loopPlan", "nextPlan", "finalPlan"}

\* C18: when the oracle is invoked after a search round, every candidate the
\* round returned with an identifier of its own is in the dossier, those whose
\* full text came back empty included.  (The round's new laws are the returned
\* candidates that were not in the dossier already.)
C18_EveryCandidateDossiered ==
    AwaitingPostSearchPlan =>
        \A i \in 1..Len(newLawsToProcess) : MapHas(dossier, newLawsToProcess[i].id)

\* a step in which an oracle call made after a search round comes back
PostSearchOracleStep ==
    /\ AwaitingPostSearchPlan
    /\ Len(calls') = Len(calls) + 1
    /\ Last(calls').fn = "analyzeAndPlanNextStep"

\* C19: an oracle call issued after a search round is issued once every new
\* law of the round has been through its full-text fetch, and the snapshot it
\* is given is the whole dossier as it stands at that moment.
C19_OracleSeesFullDossier ==
    [][ PostSearchOracleStep =>
            /\ Last(calls').dossierArg = dossier
            /\ \A i \in 1..Len(newLawsToProcess) :
                  \E k \in 1..Len(calls) :
                      /\ calls[k].fn = "fetchFullLawText"
                      /\ calls[k].id = newLawsToProcess[i].id ]_vars

\* the oracle was called after a round that wrote two laws and was given both
C19_Witness ==
    /\ calls # <<>>
    /\ Last(calls).fn = "analyzeAndPlanNextStep"
    /\ Last(calls).site \in {"executeSearchLoop", "executeSearch"}
    /\ Len(Last(calls).dossierArg) = 2
    /\ Len(CallsOf("fetchFullLawText")) = 2

\* the user actions that opened an investigation: the typed messages that
\* answered neither a proposal nor a clarification request
FreshInputs ==
    SelectSeq(inputs, LAMBDA in : /\ in.kind = "message"
                                  /\ ~in.afterAwaiting
                                  /\ ~in.afterClarification)

\* C20: every snippet extraction is called with the user's original research
\* query, the message that opened the current investigation, and so never
\* with the assistant's greeting or the user's confirmation message.
C20_SnippetQueryIsOriginal ==
    \A i \in 1..Len(calls) :
        calls[i].fn = "extractRelevantSnippets" =>
            /\ FreshInputs # <<>>
            /\ calls[i].query = Last(FreshInputs).text

\* ------------------------------------------------------------ the services

\* the service function applied in this state
Applied(fn) == serviceCall.fn = fn

\* a JSON value that is one of the four plan shapes: a known tag and every
\* key the shape requires
IsPlanShape(value) ==
    /\ value.kind = "object"
    /\ "plan" \in value.keys
    /\ value.fields.plan \in PlanTags
    /\ RequiredKeys(value.fields.plan) \subseteq value.keys

\* the upstream call threw, or gave no text, or a text that is not JSON
NoJsonFrom(upstream) ==
    \/ upstream.threw
    \/ upstream.text.empty
    \/ ~upstream.text.wellFormed
    \/ upstream.text.fenced

\* C21: analyzeAndPlanNextStep throws the planning error whenever the upstream
\* call throws, returns no text, returns text that is not JSON, or returns
\* JSON that is none of the four plan shapes; what it returns is always one
\* of the four plan shapes.
C21_PlanningError ==
    Applied("analyzeAndPlanNextStep") =>
        LET upstream == serviceCall.input.upstream
            output == serviceCall.output
        IN  /\ (NoJsonFrom(upstream) \/ ~IsPlanShape(upstream.text.value))
                   => output.status = "throw" /\ output.error = ERR_PLANNING
            /\ output.status = "ok" => IsPlanShape(output.value)

\* the oracle wrote a RESPOND object with its references as bare JSON
RespondFromUpstream ==
    /\ Applied("analyzeAndPlanNextStep")
    /\ ~NoJsonFrom(serviceCall.input.upstream)
    /\ serviceCall.input.upstream.text.value.kind = "object"
    /\ {"plan", "references"} \subseteq serviceCall.input.upstream.text.value.keys
    /\ serviceCall.input.upstream.text.value.fields.plan = "RESPOND"

\* C22: on RESPOND the returned references are as many as the oracle's and in
\* its order; each keeps the oracle's id, title and fragment; one whose id is
\* in the dossier has lawNumber, publicationDate, effectiveDate, link and
\* sourceQueries of the dossier entry, one whose id is not is unchanged.
C22_ReferenceReconciliation ==
    RespondFromUpstream =>
        LET written == serviceCall.input.upstream.text.value.fields.references
            dossierArg == serviceCall.input.dossier
            returned == serviceCall.output.value.fields.references
        IN  /\ serviceCall.output.status = "ok"
            /\ Len(returned) = Len(written)
            /\ \A i \in 1..Len(written) :
                 /\ returned[i].id = written[i].id
                 /\ returned[i].title = written[i].title
                 /\ returned[i].fragment = written[i].fragment
                 /\ IF \E k \in 1..Len(dossierArg) : dossierArg[k].id = written[i].id
                    THEN \E k \in 1..Len(dossierArg) :
                           /\ dossierArg[k].id = written[i].id
                           /\ returned[i].lawNumber = dossierArg[k].lawNumber
                           /\ returned[i].publicationDate = dossierArg[k].publicationDate
                           /\ returned[i].effectiveDate = dossierArg[k].effectiveDate
                           /\ returned[i].link = dossierArg[k].link
                           /\ returned[i].sourceQueries = dossierArg[k].sourceQueries
                    ELSE returned[i] = written[i]

\* three references (B, Z, A) were reconciled against a dossier of A and B
C22_Witness ==
    /\ RespondFromUpstream
    /\ Len(serviceCall.input.upstream.text.value.fields.references) = 3
    /\ Len(serviceCall.input.dossier) = 2
    /\ serviceCall.output.status = "ok"

\* C23: extractRelevantSnippets never throws; when the upstream call throws,
\* gives no text or gives text that is not JSON it returns the empty
\* sequence, so the caller's round goes on with no snippets for that law.
C23_SnippetsNeverThrow ==
    Applied("extractRelevantSnippets") =>
        /\ serviceCall.output.status = "ok"
        /\ NoJsonFrom(serviceCall.input.upstream)
               => serviceCall.output.value = JsonArray(<<>>)

\* the snippet model's call threw and the function returned all the same
C23_Witness ==
    /\ Applied("extractRelevantSnippets")
    /\ serviceCall.input.upstream.threw
    /\ serviceCall.output.status = "ok"

\* the snippet model answered with a text that is a JSON value inside a
\* markdown code fence
FencedAnswer ==
    /\ Applied("extractRelevantSnippets")
    /\ ~serviceCall.input.upstream.threw
    /\ ~serviceCall.input.upstream.text.empty
    /\ serviceCall.input.upstream.text.wellFormed
    /\ serviceCall.input.upstream.text.fenced

\* C24: when the snippet model's text does not parse as it is, the code fence
\* around it is stripped and the parse is tried once more: a fenced JSON array
\* yields its strings, and only a text that fails again yields [].
C24_FenceRecovery ==
    FencedAnswer => serviceCall.output.value = serviceCall.input.upstream.text.value

\* the history before a step is the beginning of the history after it
IsPrefix(before, after) ==
    /\ Len(before) <= Len(after)
    /\ SubSeq(after, 1, Len(before)) = before

\* C25: the turn sequence is append-only: a step never removes or alters a
\* turn that is in the history, proposal turns included, and adds new turns
\* at the end only.
C25_AppendOnlyHistory == [][IsPrefix(chatMessages, chatMessages')]_vars

\* a turn is being processed: the pipeline stands at one of its awaits
TurnRunning == pc # "idle"

\* C26: the busy flag is true for the whole duration of a turn and, provided
\* every external call returns or throws, it is eventually false again after
\* every accepted message or accepted plan, on success and on every failure
\* path: the input is never left disabled for good.
C26_BusyFlag ==
    /\ [](TurnRunning => isLoading)
    /\ [](isLoading => <>(~isLoading))

\* a call of a service function of one revision of a service
AppliedIn(fn, part) == serviceCall.fn = fn /\ serviceCall.part = part

\* the backend answered with a 2xx status and this text
Answered(response) == ~response.failed /\ response.ok

\* a payload that is no listing: empty, not starting with '<', or holding
\* neither of the markers of a document or of a listing
NoListingPayload(xmlText) ==
    \/ xmlText = <<>>
    \/ ~StartsWith(Trim(xmlText), <<"<">>)
    \/ (~Includes(xmlText, <<"<", "N", "o", "r", "m", "a">>) /\ ~Includes(xmlText, <<"<", "L", "i", "s", "t", "a", "d", "o">>))

\* a short payload that speaks of an error
ErrorPayload(xmlText) ==
    /\ Len(xmlText) < 200
    /\ Includes(ToLowerCase(xmlText), <<"e", "r", "r", "o", "r">>)

\* a well-formed response that holds no document block
NoDocumentBlock(response) ==
    /\ response.xmlDoc # ParserError
    /\ GetElementsByTagName(response.xmlDoc, <<"N", "o", "r", "m", "a">>) = <<>>

\* the candidate parsing rule for the fetchLawCandidates of one revision
CandidateParsing(part) ==
    (AppliedIn("fetchLawCandidates", part) /\ Answered(serviceCall.input)) =>
        LET response == serviceCall.input
            xmlText == response.xmlText
        IN  /\ (NoListingPayload(xmlText) /\ ErrorPayload(xmlText))
                   => serviceCall.output.status = "throw"
            /\ (NoListingPayload(xmlText) /\ ~ErrorPayload(xmlText))
                   => serviceCall.output = Returned(<<>>)
            /\ (~NoListingPayload(xmlText) /\ NoDocumentBlock(response))
                   => serviceCall.output = Returned(<<>>)

\* C27: candidate parsing tells zero results from errors: a response that is
\* empty, does not start with '<' or holds no document or listing marker
\* yields no candidates and no error, unless it is shorter than 200
\* characters and contains 'error' in any case, and then the call throws; a
\* well-formed response with no document block yields no candidates.
C27_ZeroResultsOrError ==
    CandidateParsing("part_000") /\ CandidateParsing("part_006")

\* a date token: two digits, a hyphen, three letters, a hyphen, four digits
IsLetter(c) == \E i \in 1..Len(Capitals) : c = Capitals[i] \/ c = Smalls[i]

IsDateToken(t) ==
    /\ Len(t) = 11
    /\ IsDigit(t[1]) /\ IsDigit(t[2])
    /\ t[3] = "-"
    /\ IsLetter(t[4]) /\ IsLetter(t[5]) /\ IsLetter(t[6])
    /\ t[7] = "-"
    /\ IsDigit(t[8]) /\ IsDigit(t[9]) /\ IsDigit(t[10]) /\ IsDigit(t[11])

HasDateToken(content) ==
    \E i \in 1..(Len(content) - 10) : IsDateToken(SubSeq(content, i, i + 10))

\* findDate of the regex revision was applied for the publication date to a
\* block that holds the publication tag and nothing else
OnPublicationTag ==
    /\ AppliedIn("findDate", "part_000")
    /\ serviceCall.input.keyword = "Publicación"
    /\ Len(serviceCall.input.node.children) = 1
    /\ serviceCall.input.node.children[1].tag = <<"F", "e", "c", "h", "a", "P", "u", "b", "l", "i", "c", "a", "c", "i", "o", "n">>

\* C28: for every tag content findDate returns 'No informado' or a
\* substring of the content made of two digits, a hyphen, three letters, a
\* hyphen and four digits; '  12-MAR-2020 extra text' gives '12-MAR-2020',
\* and a content with no date-shaped substring gives 'No informado'.
C28_DateToken ==
    OnPublicationTag =>
        LET content == serviceCall.input.node.children[1].text
            date == serviceCall.output
        IN  /\ \/ date = NOT_REPORTED
               \/ IsDateToken(date) /\ Includes(content, date)
            /\ content = <<" ", " ", "1", "2", "-", "M", "A", "R", "-", "2", "0", "2", "0", " ", "e", "x", "t", "r", "a", " ", "t", "e", "x", "t">> => date = <<"1", "2", "-", "M", "A", "R", "-", "2", "0", "2", "0">>
            /\ ~HasDateToken(content) => date = NOT_REPORTED

\* the tags tried for each date kind, in their order
DateChain(keyword) ==
    CASE keyword = "Publicación" -> << <<"F", "e", "c", "h", "a", "P", "u", "b", "l", "i", "c", "a", "c", "i", "o", "n">> >>
      [] keyword = "Vigencia|Inicio" -> << <<"I", "n", "i", "c", "i", "o", "V", "i", "g", "e", "n", "c", "i", "a">>, <<"F", "e", "c", "h", "a", "V", "i", "g", "e", "n", "c", "i", "a">> >>

\* the content of a tag of the block, Absent when the block has no such tag
TagContent(node, tag) ==
    LET hits == SelectSeq(node.children, LAMBDA child : child.tag = tag)
    IN  IF hits = <<>> THEN Absent ELSE Some(hits[1].text)

\* the tag is present and its content holds a date token
YieldsToken(node, tag) ==
    /\ TagContent(node, tag) # Absent
    /\ MatchDate(ValueOf(TagContent(node, tag)), 1) # Absent

\* the token of the first tag of the chain that yields one, else 'No informado'
ChainDate(node, chain) ==
    LET winners == { i \in 1..Len(chain) : YieldsToken(node, chain[i]) }
        first == CHOOSE i \in winners : \A j \in winners : i <= j
    IN  IF winners = {} THEN NOT_REPORTED
        ELSE ValueOf(MatchDate(ValueOf(TagContent(node, chain[first])), 1))

\* the fallback chain for the findDate of one revision
FallbackChain(part) ==
    AppliedIn("findDate", part) =>
        serviceCall.output = ChainDate(serviceCall.input.node,
                                       DateChain(serviceCall.input.keyword))

\* C29: for each date kind the tags are tried in a fixed order (publication:
\* FechaPublicacion; effective: InicioVigencia, then FechaVigencia); the
\* first tag whose content holds a date token wins, a tag without a token
\* falls through to the next, and when no listed tag yields a token the
\* field is 'No informado': it is never derived from other text of the block.
C29_DateFallbackChain ==
    FallbackChain("part_000") /\ FallbackChain("part_006")

\* the entities and the characters they denote
Entities ==
    { [ name |-> <<"&", "a", "m", "p", ";">>, char |-> "&" ],
      [ name |-> <<"&", "l", "t", ";">>, char |-> "<" ],
      [ name |-> <<"&", "g", "t", ";">>, char |-> ">" ],
      [ name |-> <<"&", "q", "u", "o", "t", ";">>, char |-> "\"" ],
      [ name |-> <<"&", "#", "3", "9", ";">>, char |-> "'" ],
      [ name |-> <<"&", "n", "b", "s", "p", ";">>, char |-> " " ] }

EntityAt(s, i) == { e \in Entities : StartsWith(From(s, i), e.name) }

\* the text with each occurrence of an entity replaced, once, by the
\* character it denotes: one pass from left to right
RECURSIVE DecodedOnce(_)
DecodedOnce(s) ==
    IF s = <<>> THEN <<>>
    ELSE IF EntityAt(s, 1) = {} THEN <<Head(s)>> \o DecodedOnce(Tail(s))
    ELSE LET e == CHOOSE e \in EntityAt(s, 1) : TRUE
         IN  <<e.char>> \o DecodedOnce(From(s, Len(e.name) + 1))

HasEntity(s) == \E i \in 1..Len(s) : EntityAt(s, i) # {}

\* findValueByRegex extracted a tag text
Extracted ==
    /\ AppliedIn("findValueByRegex", "part_000")
    /\ serviceCall.output # Absent

\* C30: every extracted tag text has each occurrence of &amp; &lt; &gt;
\* &quot; &#39; and &nbsp; replaced by the character it denotes, each
\* occurrence decoded exactly once: 'Ley &amp; Reglamento' becomes
\* 'Ley & Reglamento', and a text with no entity comes back unchanged apart
\* from trimming.
C30_EntityDecoding ==
    Extracted =>
        LET raw == serviceCall.input.raw
            text == ValueOf(serviceCall.output)
        IN  /\ text = DecodedOnce(Trim(raw))
            /\ raw = <<"L", "e", "y", " ", "&", "a", "m", "p", ";", " ", "R", "e", "g", "l", "a", "m", "e", "n", "t", "o">> => text = <<"L", "e", "y", " ", "&", " ", "R", "e", "g", "l", "a", "m", "e", "n", "t", "o">>
            /\ ~HasEntity(raw) => text = Trim(raw)

\* the texts of the leaves of an element, in document order, a space
\* between them
RECURSIVE SpacedText(_)
SpacedText(el) ==
    IF el.children = <<>> THEN el.text
    ELSE ConcatAll([i \in 1..Len(el.children) |->
                        <<" ">> \o SpacedText(el.children[i]) \o <<" ">>])

\* the text of an element without its markup, runs of spaces collapsed
PlainOf(el) == Trim(CollapseSpaces(SpacedText(el)))

\* the primary content tag of a document, Absent when it has none
ContentTag(xmlDoc) ==
    LET all == GetElementsByTagName(xmlDoc, <<"T", "e", "x", "t", "o">>)
               \o GetElementsByTagName(xmlDoc, <<"C", "o", "n", "t", "e", "n", "i", "d", "o">>)
    IN  IF all = <<>> THEN Absent ELSE Some(all[1])

\* C31: when the response holds a primary content tag (Texto or Contenido)
\* fetchFullLawText returns its content without markup and with whitespace
\* collapsed; when it holds none, it returns the whole response without
\* markup if that is longer than 100 characters and the empty text
\* otherwise; for the empty or the sentinel identifier it returns the empty
\* text and calls no backend.
C31_FullTextExtraction ==
    Applied("fetchFullLawText") =>
        LET idNorma == serviceCall.input.idNorma
            response == serviceCall.input.response
            out == serviceCall.output
            whole == PlainOf(response.xmlDoc.documentElement)
        IN  /\ (idNorma = <<>> \/ idNorma = UNKNOWN_ID)
                   => (~out.fetched /\ out.status = "ok" /\ out.value = <<>>)
            /\ (idNorma # <<>> /\ idNorma # UNKNOWN_ID /\ Answered(response))
                   => /\ out.fetched
                      /\ out.status = "ok"
                      /\ out.value =
                            IF ContentTag(response.xmlDoc) # Absent
                            THEN PlainOf(ValueOf(ContentTag(response.xmlDoc)))
                            ELSE IF Len(whole) > 100 THEN whole ELSE <<>>

\* the step takes a user message or the accept-plan shortcut
Accepted == Len(inputs') > Len(inputs)

\* C32: a user message or the accept-plan shortcut is accepted only while
\* the busy flag is false, and the busy flag is true as long as a turn's
\* pipeline is running: a second pipeline never starts while one is running,
\* so no two of them change the dossier, the pending plan or the
\* clarification counter in turns.
C32_SingleTurnInFlight ==
    [][/\ TurnRunning => isLoading
       /\ TurnRunning' => isLoading'
       /\ Accepted => (~isLoading /\ ~TurnRunning)]_vars

\* the accept-plan shortcut started a pipeline, which is running and busy
C32_Witness ==
    /\ inputs # <<>>
    /\ Last(inputs).kind = "button"
    /\ TurnRunning
    /\ isLoading

\* the step ends the turn in hand
TurnEnds == TurnRunning /\ ~TurnRunning'

\* the step ends the turn by an exception: the await it stood at rejected,
\* or the search loop itself threw (budget used up, no answer formulated)
TurnFails ==
    /\ TurnEnds
    /\ Len(calls') = Len(calls) + 1
    /\ \/ Last(calls').result = "throw"
       \/ /\ pc = "loopPlan"
          /\ Last(calls').result = "SEARCH_MORE"
          /\ ~LoopContinues(loops + 1)
       \/ /\ pc = "finalPlan"
          /\ revision = "loop"
          /\ Last(calls').result # "RESPOND"

\* the step takes a typed user message
MessageSubmitted == Accepted /\ Last(inputs').kind = "message"

\* C33: the last-error string is reset to null when a user message is
\* submitted; after a turn ends it is non-null exactly when that turn
\* failed, and then the last turn of the history is a model turn with the
\* same error text.
C33_LastError ==
    [][/\ MessageSubmitted => error' = Null
       /\ TurnEnds => ((error' # Null) <=> TurnFails)
       /\ TurnFails => Last(chatMessages') = ErrorTurn(error')]_vars

\* between turns, the last turn of the history asks for a confirmation
AwaitingBetweenTurns == ~TurnRunning /\ Last(chatMessages).isAwaitingConfirmation

\* the step takes what the revision reads as an affirmation, typed or given
\* by the button, of the proposal in the last turn
AffirmationStep ==
    /\ Accepted
    /\ Last(inputs').afterAwaiting
    /\ \/ Last(inputs').kind = "button"
       \/ IF revision = "loop" THEN IsConfirmed(Last(inputs').text)
                               ELSE LooseConfirmed(Last(inputs').text)

\* C34: between turns, when the last turn of the history is flagged
\* isAwaitingConfirmation the pending plan is non-null, so an affirmation
\* given in that state starts a search: it is never dropped.
C34_PendingPlanInvariant ==
    [][/\ AwaitingBetweenTurns => proposedPlan # Absent
       /\ AffirmationStep => (SearchStarts /\ isLoading')]_vars

\* an affirmation of the proposal in the last turn has started a search
C34_Witness ==
    /\ inputs # <<>>
    /\ Last(inputs).afterAwaiting
    /\ pc = "candidates"
    /\ calls = <<>>
    /\ isLoading

\* C35: the queries executed on a confirmation are those of the most recent
\* proposal put in front of the user, which is the last plan the oracle
\* returned: a pending plan left from an earlier proposal (rejected,
\* superseded by feedback, already executed) is never the one searched.
C35_LatestProposalSearched ==
    [][SearchStarts =>
          /\ querySrc' >= 1
          /\ querySrc' = planSerial
          /\ searchQueries' = PendingQueries]_vars

\* a second proposal, made after the first was answered, is the one whose
\* search has started
C35_Witness ==
    /\ pc = "candidates"
    /\ calls = <<>>
    /\ querySrc >= 2
    /\ querySrc = planSerial

\* a step in which the planning oracle is called
PlanCallStep ==
    /\ Len(calls') = Len(calls) + 1
    /\ Last(calls').fn = "analyzeAndPlanNextStep"

\* C36: the clarificationAttempt given to every call of the planning oracle
\* is the session's clarificationAttempt counter at the time of the call,
\* the calls made inside the search loop included.
C36_AttemptPassed ==
    [][PlanCallStep => Last(calls').attempt = clarificationAttempt]_vars

\* the calls of the planning oracle made by the running executeSearchLoop
SearchLoopPlanCalls ==
    SelectSeq(calls, LAMBDA c : /\ c.fn = "analyzeAndPlanNextStep"
                                /\ c.site = "executeSearchLoop")

\* the rounds the running executeSearchLoop has started
RoundsStarted == loops + 1

\* C37: one confirmed execution of executeSearchLoop makes at most
\* MAX_SEARCH_LOOPS (2) rounds of candidate search and at most 3 calls of
\* the planning oracle, and it always ends, whatever the oracle and the
\* backend answer.
C37_BoundedWork ==
    /\ []((revision = "loop" /\ Searching) => RoundsStarted <= MAX_SEARCH_LOOPS)
    /\ [](Len(SearchLoopPlanCalls) <= 3)
    /\ []((revision = "loop" /\ Searching) => <>(~TurnRunning))

\* a search over two rounds and three oracle calls has ended
C37_Witness ==
    /\ revision = "loop"
    /\ ~TurnRunning
    /\ Len(SearchLoopPlanCalls) = 3
    /\ SearchLoopPlanCalls[1].result = "SEARCH_MORE"
    /\ SearchLoopPlanCalls[3].attempt = 99

====
